---- MODULE Spec2Model ----
(***************************************************************************)
(* A model of the customer-retention ETL scripts.                          *)
(*                                                                         *)
(*   SpecDB    src/ETL/DBLostClients.py: main() building Gone_Clients      *)
(*             .sqlite from the two input tables, statement by statement.  *)
(*   SpecLoad  load_data of etl_pipeline/data_io.py and of                 *)
(*             data_preparation.py.                                        *)
(*   SpecStats etl_pipeline/main.py steps 6 and 8: plot_box_compare and    *)
(*             get_quartile_category_teachers_list on the two yearly       *)
(*             statistics tables.                                          *)
(*   SpecLoss  etl_pipeline/analytics.py: get_loss_dataframe, called for   *)
(*             the two school years as etl_pipeline/main.py calls it.      *)
(*   SpecAge   etl_pipeline/preprocessing.py: categorize_age.              *)
(*   SpecAnalysis  etl_pipeline/main.py steps 6 and 8 followed by          *)
(*             get_teacher_analysis and by the teacher groups of           *)
(*             data_analysis/feature_engineering.py.                       *)
(*   SpecApi   loss_students_data_pipeline.py: get_student_ids and         *)
(*             get_attendance, row by row, against the LMS API.            *)
(*   SpecCausal  data_modeling/assessment_of_causal_effect_*.py.           *)
(*   SpecDBFail  SpecDB with an INSERT that raises.                        *)
(*   SpecPrep  ETL/data_preparation.py: get_costs_and_salaries applied to  *)
(*             every row of the report.                                    *)
(*   SpecListed  SpecAnalysis over yearly tables in which a teacher may    *)
(*             have two rows.                                              *)
(*   SpecName  etl_pipeline/main.py step 2: normalize_teacher and          *)
(*             map_teacher_names.                                          *)
(*                                                                         *)
(* A DataFrame is a sequence of rows (records); a missing cell is NaN.     *)
(* A database table is the sequence of its rows in rowid order: no         *)
(* statement of the program deletes a row, so the INTEGER PRIMARY KEY id   *)
(* of a row is its position.                                               *)
(***************************************************************************)
EXTENDS Integers, Sequences, FiniteSets, TLC

VARIABLES
    \* ---- DBLostClients.py
    df1,       \* data/1_Attended_classes.csv as read at import (line 56)
    df2,       \* data/Extended_raw_data.csv as read at import (line 57)
    schema,    \* the tables that exist in Gone_Clients.sqlite
    db,        \* the committed rows of each table
    pending,   \* rows inserted on the open connection and not yet committed
    conn,      \* the module-global connection (lines 54, 66)
    cursor,    \* the module-global cursor (lines 55, 67)
    lconn,     \* main()'s local connection (line 350)
    nOpen,     \* how many connections to the database file are open
    pc,        \* the statement main() is about to execute
    target,    \* table_name of the running insert_df_to_table call
    work,      \* df_clean of the running insert_df_to_table call
    i,         \* the next row of the running iterrows() loop
    merged,    \* df_merged, the result of unite_tables (line 342)
    printed,   \* the "not found" messages printed by the running fact load
    runs,      \* how many times main() has been started
    \* ---- load_data
    file,      \* the file on disk that load_data is asked to read
    loaded,    \* what the last load_data call did
    lastLog,   \* the logging records the last load_data call emitted
    \* ---- etl_pipeline/main.py, steps 6 and 8
    stats1,    \* stats_22_23
    stats2,    \* stats_23_24
    outliers,  \* outliers_teachers_all
    quart1,    \* quartile_lists_22_23
    quart2,    \* quartile_lists_23_24
    spc,       \* the statement of etl_pipeline/main.py about to execute
    df_analysis,    \* data/teachers_analysis.csv (main.py line 259)
    teacher_groups, \* data/teachers_A.csv .. teachers_D.csv
    \* ---- etl_pipeline/main.py, step 5
    dframe,    \* df of etl_pipeline/main.py after step 2
    groups_and_losts, \* the two groups_and_losts_<years>.csv files
    loss,      \* what the two get_loss_dataframe calls did
    lpc,       \* the call of step 5 about to be made
    \* ---- categorize_age
    age_df,    \* the DataFrame categorize_age is given, then returns
    agepc,     \* whether categorize_age has been called
    \* ---- loss_students_data_pipeline.py
    api_df,    \* df1 of main(), lines 260-264
    api_i,     \* the next row of the running iterrows() loop
    apc,       \* the function of the pipeline that is running
    response,  \* what the last requests.get did
    requests,  \* the GET requests sent so far
    \* ---- data_modeling/assessment_of_causal_effect_*.py
    fitted,    \* result.params of the fitted Logit model
    saved,     \* the metrics written to the results CSV
    cpc,       \* which script has run
    \* ---- ETL/data_preparation.py
    report,    \* df of the main script (Final_Gone_Clients_Report.csv)
    costs_df,  \* costs_salaries_converted.csv
    ppc,       \* the step of the main script about to execute
    \* ---- etl_pipeline/main.py, step 2
    names_df,  \* the teacher columns of one row of df
    npc        \* the statement of step 2 about to execute

dbVars    == <<df1, df2, schema, db, pending, conn, cursor, lconn, nOpen, pc,
               target, work, i, merged, printed, runs>>
loadVars  == <<file, loaded, lastLog>>
statsVars == <<stats1, stats2, outliers, quart1, quart2, spc>>
analysisVars == <<df_analysis, teacher_groups>>
lossVars  == <<dframe, groups_and_losts, loss, lpc>>
ageVars   == <<age_df, agepc>>
apiVars   == <<api_df, api_i, apc, response, requests>>
causalVars == <<fitted, saved, cpc>>
prepVars  == <<report, costs_df, ppc>>
nameVars  == <<names_df, npc>>
vars      == <<dbVars, loadVars, statsVars, analysisVars, lossVars, ageVars,
               apiVars, causalVars, prepVars, nameVars>>

\* What the actions of one program leave alone: the state of the others.
notDB    == <<loadVars, statsVars, analysisVars, lossVars, ageVars, apiVars,
              causalVars, prepVars, nameVars>>
notLoad  == <<dbVars, statsVars, analysisVars, lossVars, ageVars, apiVars,
              causalVars, prepVars, nameVars>>
notStats == <<dbVars, loadVars, lossVars, ageVars, apiVars, causalVars,
              prepVars, nameVars>>
notLoss  == <<dbVars, loadVars, statsVars, analysisVars, ageVars, apiVars,
              causalVars, prepVars, nameVars>>
notAge   == <<dbVars, loadVars, statsVars, analysisVars, lossVars, apiVars,
              causalVars, prepVars, nameVars>>
notApi   == <<dbVars, loadVars, statsVars, analysisVars, lossVars, ageVars,
              causalVars, prepVars, nameVars>>
notCausal == <<dbVars, loadVars, statsVars, analysisVars, lossVars, ageVars,
               apiVars, prepVars, nameVars>>
notPrep  == <<dbVars, loadVars, statsVars, analysisVars, lossVars, ageVars,
              apiVars, causalVars, nameVars>>
notName  == <<dbVars, loadVars, statsVars, analysisVars, lossVars, ageVars,
              apiVars, causalVars, prepVars>>

----------------------------------------------------------------------------
(* Bounds of the model.                                                    *)

MaxRows  == 3      \* rows of df1 and df2 together
MaxRuns  == 2      \* how many times main() is run on the same database file
MaxFileRows == 3   \* rows of the CSV file load_data reads
MaxStatRows == 8   \* rows of stats_22_23 and stats_23_24 together

----------------------------------------------------------------------------
(* Values.                                                                 *)

NaN  == "NaN"      \* a missing DataFrame cell (pd.isna)
NULL == "NULL"     \* SQL NULL
None == 0          \* cursor.fetchone() when no row matches

SeqsUpTo(S, n) == UNION {[1..k -> S] : k \in 0..n}

\* The rows of s at the positions K, in order.
RowsAt(s, K) ==
    LET at(k) == CHOOSE x \in K : Cardinality({y \in K : y < x}) = k - 1
    IN  [k \in 1..Cardinality(K) |-> s[at(k)]]

MissingGroup == "215221_Uman"
StudentNames == {"Ann", "Bob"}
Ages         == {7, 8}
GroupNames   == {"G1", MissingGroup}
TeacherNames == {"Tom", "Bondar"}
Cities       == {"Kyiv"}

Df1Row == [student : StudentNames \cup {NaN}, age : Ages, group : GroupNames]
Df2Row == [group : GroupNames, teacher : TeacherNames \cup {NaN}, city : Cities]

AllTables == {"students", "teachers", "groups", "gone_clients_content"}
EmptyDb   == [t \in AllTables |-> <<>>]
NoConn    == [state |-> "none", fk |-> FALSE]

\* The programs a specification does not run stay as they are before they
\* are started.
InitAnalysisIdle == df_analysis = <<>> /\ teacher_groups = <<>>
InitLossIdle ==
    /\ dframe = <<>> /\ groups_and_losts = <<>> /\ loss = <<>> /\ lpc = "off"
InitAgeIdle == age_df = <<>> /\ agepc = "off"
InitApiIdle ==
    /\ api_df = <<>> /\ api_i = 1 /\ apc = "off" /\ response = <<>>
    /\ requests = <<>>
InitCausalIdle == fitted = <<>> /\ saved = <<>> /\ cpc = "off"
InitPrepIdle == report = <<>> /\ costs_df = <<>> /\ ppc = "off"
InitNameIdle == names_df = <<>> /\ npc = "off"
InitOthersIdle ==
    /\ InitAnalysisIdle /\ InitLossIdle /\ InitAgeIdle /\ InitApiIdle
    /\ InitCausalIdle /\ InitPrepIdle /\ InitNameIdle

----------------------------------------------------------------------------
(* pandas and sqlite3, as DBLostClients.py uses them.                      *)

\* DataFrame.drop_duplicates(): the first occurrence of every row is kept
\* (two missing cells count as equal).
drop_duplicates(s) ==
    RowsAt(s, {k \in 1..Len(s) : \A j \in 1..(k - 1) : s[j] # s[k]})

\* df[list(column_mapping.keys())] followed by rename(columns=column_mapping),
\* for the three column mappings main() passes.  Of each mapping the name
\* column and at most one attribute column are kept (age, city); student_id,
\* subject, group_id and start_date are carried the same way and left out.
select_columns(df, table_name) ==
    [k \in 1..Len(df) |->
        CASE table_name = "students" ->
                 [student_name |-> df[k].student, age |-> df[k].age]
          [] table_name = "teachers" ->
                 [teacher_name |-> df[k].teacher, city |-> df[k].city]
          [] table_name = "groups" ->
                 [group_name |-> df[k].group]]

\* The values list bound to the INSERT: a missing cell becomes None (NULL),
\* a number goes through int(), anything else is passed as it is.
to_sql_text(v) == IF v = NaN THEN NULL ELSE v
to_sql_values(row, table_name) ==
    CASE table_name = "students" ->
             [student_name |-> to_sql_text(row.student_name), age |-> row.age]
      [] table_name = "teachers" ->
             [teacher_name |-> to_sql_text(row.teacher_name),
              city |-> to_sql_text(row.city)]
      [] table_name = "groups" ->
             [group_name |-> to_sql_text(row.group_name)]

\* "SELECT id FROM <table> WHERE <column> = ?" and fetchone(): the id of the
\* first row, in rowid order (the order of SQLite's table scan), whose column
\* equals the parameter.  A missing
\* name is bound as NULL, and NULL = NULL is not true in SQL.
select_id(rows, column, name) ==
    LET hits == {k \in 1..Len(rows) :
                    /\ name # NaN
                    /\ rows[k][column] # NULL
                    /\ rows[k][column] = name}
    IN  IF hits = {} THEN None
        ELSE CHOOSE k \in hits : \A h \in hits : k <= h

\* CREATE TABLE IF NOT EXISTS for the four tables: a table that exists is
\* left as it is, rows included.
create_tables_drop_first(d, sch) == [db |-> EmptyDb, schema |-> AllTables]
create_tables(d, sch) == [db |-> d, schema |-> sch \cup AllTables]

----------------------------------------------------------------------------
(* unite_tables.                                                           *)

missing_teachers_dict == [g \in {MissingGroup} |-> "Bondar"]

with_teacher(r, t) ==
    [student |-> r.student, age |-> r.age, group |-> r.group, teacher |-> t]

teachers_unique(df_teachers) ==
    drop_duplicates([k \in 1..Len(df_teachers) |->
        [group |-> df_teachers[k].group, teacher |-> df_teachers[k].teacher]])

\* One row of df_main.merge(teachers_unique, on=group, how="left"): a copy
\* per matching right row, or one copy with a missing teacher.
merge_row(r, tu) ==
    LET M == {k \in 1..Len(tu) : tu[k].group = r.group}
        m == RowsAt(tu, M)
    IN  IF M = {} THEN <<with_teacher(r, NaN)>>
        ELSE [n \in 1..Len(m) |-> with_teacher(r, m[n].teacher)]

RECURSIVE left_merge(_, _)
left_merge(df_main, tu) ==
    IF df_main = <<>> THEN <<>>
    ELSE merge_row(Head(df_main), tu) \o left_merge(Tail(df_main), tu)

fix_teachers(m, missing_teachers) ==
    [k \in 1..Len(m) |->
        IF m[k].group \in DOMAIN missing_teachers
        THEN with_teacher(m[k], missing_teachers[m[k].group])
        ELSE m[k]]

dropna(m) == SelectSeq(m, LAMBDA r : r.teacher # NaN)

unite_tables_no_fix(df_main, df_teachers, missing_teachers) ==
    dropna(left_merge(df_main, teachers_unique(df_teachers)))
unite_tables(df_main, df_teachers, missing_teachers) ==
    LET m == left_merge(df_main, teachers_unique(df_teachers))
    IN  dropna(IF DOMAIN missing_teachers # {}
               THEN fix_teachers(m, missing_teachers) ELSE m)

----------------------------------------------------------------------------
(* insert_into_gone_clients_content, one row of the loop.                  *)

lookup_ids(row, d) ==
    [student |-> select_id(d["students"], "student_name", row.student),
     teacher |-> select_id(d["teachers"], "teacher_name", row.teacher),
     group   |-> select_id(d["groups"], "group_name", row.group)]

\* Which of the three "not found" branches a row takes; "none": it is inserted.
skip_reason_student_only(ids) ==
    IF ids.student = None THEN "student" ELSE "none"
skip_reason(ids) ==
    IF ids.student = None THEN "student"
    ELSE IF ids.teacher = None THEN "teacher"
    ELSE IF ids.group = None THEN "group"
    ELSE "none"

\* The values bound to the INSERT of lines 298-302.  attendance_number and
\* lost_reasons are copied from the row as they are and are left out.
fact_row_swapped(ids) ==
    [student_id |-> ids.student, teacher_id |-> ids.group,
     group_id |-> ids.teacher]
fact_row(ids) ==
    [student_id |-> ids.student, teacher_id |-> ids.teacher,
     group_id |-> ids.group]

----------------------------------------------------------------------------
(* DBLostClients.py: the statements of main(), in program order.           *)

\* df_clean of insert_df_to_table (lines 167-169).
df_clean_keep_all(df, table_name) == select_columns(df, table_name)
df_clean(df, table_name) == drop_duplicates(select_columns(df, table_name))

\* The DataFrame main() passes for each reference table (lines 313-335).
df_of(table_name) == IF table_name = "teachers" THEN df2 ELSE df1

InitDB ==
    /\ df1 \in SeqsUpTo(Df1Row, MaxRows)
    /\ df2 \in SeqsUpTo(Df2Row, MaxRows - Len(df1))
    /\ schema = {}
    /\ db = EmptyDb
    /\ pending = <<>>
    /\ conn = NoConn
    /\ cursor = "none"
    /\ lconn = NoConn
    /\ nOpen = 0
    /\ pc = "idle"
    /\ target = "none"
    /\ work = <<>>
    /\ i = 1
    /\ merged = <<>>
    /\ printed = <<>>
    /\ runs = 0

\* python DBLostClients.py, once more on the same input files.
main ==
    /\ UNCHANGED notDB
    /\ pc \in {"idle", "done"}
    /\ runs < MaxRuns
    /\ runs' = runs + 1
    /\ pc' = "create_open"
    /\ UNCHANGED <<df1, df2, schema, db, pending, conn, cursor, lconn, nOpen,
                   target, work, i, merged, printed>>

\* open(): connect, take a cursor, PRAGMA foreign_keys = ON.
open ==
    /\ conn' = [state |-> "open", fk |-> TRUE]
    /\ cursor' = "open"
    /\ nOpen' = nOpen + 1

\* close(): cursor.close(), conn.close().
close ==
    /\ cursor' = "closed"
    /\ conn' = [conn EXCEPT !.state = "closed"]
    /\ nOpen' = nOpen - 1

\* create(), line 111.
create_open ==
    /\ UNCHANGED notDB
    /\ pc = "create_open"
    /\ open
    /\ pc' = "create_tables"
    /\ UNCHANGED <<df1, df2, schema, db, pending, lconn, target, work, i,
                   merged, printed, runs>>

\* create(), lines 112-146: the PRAGMA and the four do(CREATE TABLE IF NOT
\* EXISTS ...) calls, each committed.
create_do ==
    /\ UNCHANGED notDB
    /\ pc = "create_tables"
    /\ conn.state = "open"
    /\ LET r == create_tables(db, schema)
       IN  db' = r.db /\ schema' = r.schema
    /\ conn' = [conn EXCEPT !.fk = TRUE]
    /\ pc' = "create_close"
    /\ UNCHANGED <<df1, df2, pending, cursor, lconn, nOpen, target, work, i,
                   merged, printed, runs>>

\* create(), line 147.
create_close ==
    /\ UNCHANGED notDB
    /\ pc = "create_close"
    /\ close
    /\ pc' = "ins_open"
    /\ target' = "students"
    /\ UNCHANGED <<df1, df2, schema, db, pending, lconn, work, i, merged,
                   printed, runs>>

\* insert_df_to_table, lines 167-172: df_clean, then open().
insert_df_open ==
    /\ UNCHANGED notDB
    /\ pc = "ins_open"
    /\ work' = df_clean(df_of(target), target)
    /\ open
    /\ i' = 1
    /\ pending' = <<>>
    /\ pc' = "ins_rows"
    /\ UNCHANGED <<df1, df2, schema, db, lconn, target, merged, printed, runs>>

\* insert_df_to_table, lines 174-183: one pass of the loop, one INSERT.
\* (insert_df_row_autocommit: the same pass if every INSERT were committed on
\* its own.)
insert_df_row_autocommit ==
    /\ UNCHANGED notDB
    /\ pc = "ins_rows"
    /\ i <= Len(work)
    /\ target \in schema
    /\ db' = [db EXCEPT ![target] = Append(@, to_sql_values(work[i], target))]
    /\ i' = i + 1
    /\ UNCHANGED <<df1, df2, schema, pending, conn, cursor, lconn, nOpen, pc,
                   target, work, merged, printed, runs>>
insert_df_row ==
    /\ UNCHANGED notDB
    /\ pc = "ins_rows"
    /\ i <= Len(work)
    /\ target \in schema
    /\ pending' = Append(pending, to_sql_values(work[i], target))
    /\ i' = i + 1
    /\ UNCHANGED <<df1, df2, schema, db, conn, cursor, lconn, nOpen, pc,
                   target, work, merged, printed, runs>>

\* insert_df_to_table, lines 185-186: conn.commit(), conn.close() (the cursor
\* is left as it is); then main() goes on to its next call.
\* (insert_df_commit_no_close: the same lines without conn.close().)
insert_df_commit_no_close ==
    /\ UNCHANGED notDB
    /\ pc = "ins_rows"
    /\ i > Len(work)
    /\ db' = [db EXCEPT ![target] = @ \o pending]
    /\ pending' = <<>>
    /\ IF target = "students" THEN pc' = "ins_open" /\ target' = "teachers"
       ELSE IF target = "teachers" THEN pc' = "ins_open" /\ target' = "groups"
       ELSE pc' = "unite" /\ target' = "none"
    /\ UNCHANGED <<df1, df2, schema, conn, cursor, lconn, nOpen, work, i,
                   merged, printed, runs>>
insert_df_commit ==
    /\ UNCHANGED notDB
    /\ pc = "ins_rows"
    /\ i > Len(work)
    /\ db' = [db EXCEPT ![target] = @ \o pending]
    /\ pending' = <<>>
    /\ conn' = [conn EXCEPT !.state = "closed"]
    /\ nOpen' = nOpen - 1
    /\ IF target = "students" THEN pc' = "ins_open" /\ target' = "teachers"
       ELSE IF target = "teachers" THEN pc' = "ins_open" /\ target' = "groups"
       ELSE pc' = "unite" /\ target' = "none"
    /\ UNCHANGED <<df1, df2, schema, cursor, lconn, work, i, merged, printed,
                   runs>>

\* main(), lines 338-347.
unite ==
    /\ UNCHANGED notDB
    /\ pc = "unite"
    /\ merged' = unite_tables(df1, df2, missing_teachers_dict)
    /\ pc' = "facts_connect"
    /\ UNCHANGED <<df1, df2, schema, db, pending, conn, cursor, lconn, nOpen,
                   target, work, i, printed, runs>>

\* main(), line 350: sqlite3.connect(db_name); no PRAGMA is issued on this
\* connection, and SQLite leaves foreign-key enforcement off by default.
facts_connect ==
    /\ UNCHANGED notDB
    /\ pc = "facts_connect"
    /\ lconn' = [state |-> "open", fk |-> FALSE]
    /\ nOpen' = nOpen + 1
    /\ target' = "gone_clients_content"
    /\ i' = 1
    /\ pending' = <<>>
    /\ printed' = <<>>
    /\ pc' = "facts_rows"
    /\ UNCHANGED <<df1, df2, schema, db, conn, cursor, work, merged, runs>>

\* insert_into_gone_clients_content, lines 260-302: one pass of the loop.
facts_row ==
    /\ UNCHANGED notDB
    /\ pc = "facts_rows"
    /\ i <= Len(merged)
    /\ LET ids == lookup_ids(merged[i], db)
           why == skip_reason(ids)
       IN  IF why = "none"
           THEN /\ pending' = Append(pending, fact_row(ids))
                /\ printed' = printed
           ELSE /\ printed' = Append(printed, why)
                /\ pending' = pending
    /\ i' = i + 1
    /\ UNCHANGED <<df1, df2, schema, db, conn, cursor, lconn, nOpen, pc,
                   target, work, merged, runs>>

\* insert_into_gone_clients_content, line 304.
facts_commit ==
    /\ UNCHANGED notDB
    /\ pc = "facts_rows"
    /\ i > Len(merged)
    /\ db' = [db EXCEPT !["gone_clients_content"] = @ \o pending]
    /\ pending' = <<>>
    /\ pc' = "facts_close"
    /\ UNCHANGED <<df1, df2, schema, conn, cursor, lconn, nOpen, target, work,
                   i, merged, printed, runs>>

\* main(), line 352.
facts_close ==
    /\ UNCHANGED notDB
    /\ pc = "facts_close"
    /\ lconn' = [lconn EXCEPT !.state = "closed"]
    /\ nOpen' = nOpen - 1
    /\ target' = "none"
    /\ pc' = "done"
    /\ UNCHANGED <<df1, df2, schema, db, pending, conn, cursor, work, i,
                   merged, printed, runs>>

NextDB ==
    \/ main
    \/ create_open
    \/ create_do
    \/ create_close
    \/ insert_df_open
    \/ insert_df_row
    \/ insert_df_commit
    \/ unite
    \/ facts_connect
    \/ facts_row
    \/ facts_commit
    \/ facts_close

InitLoadIdle  == file = "missing" /\ loaded = [kind |-> "none"] /\ lastLog = <<>>
InitStatsIdle ==
    /\ stats1 = <<>> /\ stats2 = <<>> /\ outliers = <<>>
    /\ quart1 = <<>> /\ quart2 = <<>> /\ spc = "off"

InitSpecDB == InitDB /\ InitLoadIdle /\ InitStatsIdle /\ InitOthersIdle

SpecDB == InitSpecDB /\ [][NextDB]_vars

----------------------------------------------------------------------------
(* Claims about DBLostClients.py, checked under SpecDB.                    *)

Facts == db["gone_clients_content"]

\* The fact load of the current run has gone through all of df_merged.
FactsLoaded == pc \in {"facts_close", "done"}

\* unite_tables has returned in the current run.
United == pc \in {"facts_connect", "facts_rows", "facts_close", "done"}

HasName(rows, column, name) ==
    \E k \in 1..Len(rows) : rows[k][column] # NULL /\ rows[k][column] = name

\* The three names of a row of df_merged are all present in the database.
AllFound(r) ==
    /\ r.student # NaN /\ HasName(db["students"], "student_name", r.student)
    /\ r.teacher # NaN /\ HasName(db["teachers"], "teacher_name", r.teacher)
    /\ HasName(db["groups"], "group_name", r.group)

Resolves(f) ==
    /\ f.student_id \in 1..Len(db["students"])
    /\ f.teacher_id \in 1..Len(db["teachers"])
    /\ f.group_id \in 1..Len(db["groups"])

\* C1: every row of gone_clients_content, committed or inserted by the running
\* fact load, has a student_id, a teacher_id and a group_id that are each the
\* id of an existing row of students, teachers and groups.
C1_FactsReferenceExistingRows ==
    /\ \A k \in 1..Len(Facts) : Resolves(Facts[k])
    /\ target = "gone_clients_content" =>
           \A k \in 1..Len(pending) : Resolves(pending[k])

\* C1's case: a fact load that inserted one row and skipped another is over.
C1_Witness ==
    /\ FactsLoaded
    /\ Len(Facts) > 0
    /\ printed # <<>>

\* The rows of df_merged the loop has gone through that have all three names.
FoundSoFar == {k \in 1..(i - 1) : AllFound(merged[k])}

\* C2: the fact load goes through df_merged once, row by row: a row with a
\* name that is not found prints a message, inserts nothing and does not stop
\* the loop; a row with all three names found inserts one fact row whose ids
\* are ids of rows carrying those names; so the fact rows added are as many as
\* the rows with three successful lookups, and the commit adds exactly them.
C2_OneFactPerFoundRow ==
    [][pc = "facts_rows" =>
        /\ i <= Len(merged) => (i' = i + 1 /\ pc' = "facts_rows")
        /\ i > Len(merged) =>
              (db' = [db EXCEPT !["gone_clients_content"] = @ \o pending])
        /\ Len(pending) = Cardinality(FoundSoFar)
        /\ Len(printed) = (i - 1) - Len(pending)
        /\ LET src == RowsAt(merged, FoundSoFar)
           IN  \A n \in 1..Len(pending) :
                 /\ Resolves(pending[n])
                 /\ db["students"][pending[n].student_id].student_name
                        = src[n].student
                 /\ db["teachers"][pending[n].teacher_id].teacher_name
                        = src[n].teacher
                 /\ db["groups"][pending[n].group_id].group_name
                        = src[n].group]_vars

\* C2's case: the loop is over, a row was skipped and a later row inserted.
C2_Witness ==
    /\ pc = "facts_rows"
    /\ i > Len(merged)
    /\ \E a, b \in 1..Len(merged) :
          a < b /\ ~AllFound(merged[a]) /\ AllFound(merged[b])

\* What one run of main() on df1 and df2 puts into an empty database.
SnapshotRef(table_name) ==
    LET c == df_clean(df_of(table_name), table_name)
    IN  [k \in 1..Len(c) |-> to_sql_values(c[k], table_name)]
Snapshot ==
    LET ref == [t \in AllTables |->
                   IF t = "gone_clients_content" THEN <<>> ELSE SnapshotRef(t)]
        m   == unite_tables(df1, df2, missing_teachers_dict)
        ok  == {k \in 1..Len(m) : skip_reason(lookup_ids(m[k], ref)) = "none"}
        src == RowsAt(m, ok)
    IN  [ref EXCEPT !["gone_clients_content"] =
            [n \in 1..Len(src) |-> fact_row(lookup_ids(src[n], ref))]]

\* C3: whenever main() has finished, the four tables hold what one run on the
\* input files produces, however many times main() has been run.
C3_RerunLeavesSnapshot == pc = "done" => db = Snapshot

\* C4: create() on a database whose tables exist, empty or populated, leaves
\* every row and the schema as they are, and after create() the four tables
\* exist.
C4_CreateIsIdempotent ==
    [][pc = "create_tables" =>
        /\ db' = db
        /\ schema' = AllTables
        /\ schema = AllTables => schema' = schema]_vars

\* C4's case: create() has run on a database that held rows.
C4_Witness ==
    /\ pc = "create_close"
    /\ runs = 2
    /\ Len(db["students"]) > 0
    /\ Len(Facts) > 0

\* C5: while rows are inserted into gone_clients_content, the connection they
\* are inserted through has foreign-key enforcement on.
C5_FactInsertsEnforceForeignKeys ==
    pc = "facts_rows" => (lconn.state = "open" /\ lconn.fk)

\* The distinct combinations of the mapped columns in the DataFrame of the
\* running insert_df_to_table call.
Combinations ==
    LET c == select_columns(df_of(target), target)
    IN  {c[k] : k \in 1..Len(c)}

\* C7: when the loop of insert_df_to_table is over, it has inserted exactly
\* one row for each distinct combination of the mapped columns, and the commit
\* adds these rows, and nothing else, to the target table.
C7_OneRowPerCombination ==
    [][(pc = "ins_rows" /\ i > Len(work)) =>
        /\ Len(pending) = Cardinality(Combinations)
        /\ \A c \in Combinations :
              Cardinality({n \in 1..Len(pending) :
                              pending[n] = to_sql_values(c, target)}) = 1
        /\ db' = [db EXCEPT ![target] = @ \o pending]]_vars

\* C7's case: a DataFrame with a repeated combination has been inserted.
C7_Witness ==
    /\ pc = "ins_rows"
    /\ i > Len(work)
    /\ pending # <<>>
    /\ Len(pending) < Len(df_of(target))

HasTeacher(g) ==
    \E t \in 1..Len(df2) : df2[t].group = g /\ df2[t].teacher # NaN

InResult(r) ==
    \E k \in 1..Len(merged) :
        /\ merged[k].student = r.student
        /\ merged[k].age = r.age
        /\ merged[k].group = r.group

\* C8: every row of the result of unite_tables has a teacher and comes from a
\* row of df_main, and a row of df_main is in the result exactly when its
\* group has a teacher in df_teachers or is a key of missing_teachers.
C8_UniteDropsUnmatchedOnly ==
    United =>
        /\ \A k \in 1..Len(merged) :
              /\ merged[k].teacher # NaN
              /\ \E j \in 1..Len(df1) :
                    /\ merged[k].student = df1[j].student
                    /\ merged[k].age = df1[j].age
                    /\ merged[k].group = df1[j].group
        /\ \A j \in 1..Len(df1) :
              InResult(df1[j]) <=>
                  \/ HasTeacher(df1[j].group)
                  \/ df1[j].group \in DOMAIN missing_teachers_dict

\* C8's case: one row was dropped, one kept for its teacher in df_teachers and
\* one kept only by missing_teachers.
C8_Witness ==
    /\ United
    /\ \E a, b \in 1..Len(df1) :
          /\ ~InResult(df1[a])
          /\ InResult(df1[b])
          /\ df1[b].group = MissingGroup
          /\ ~HasTeacher(MissingGroup)

----------------------------------------------------------------------------
(* load_data (etl_pipeline/data_io.py and data_preparation.py).            *)

CsvCells == {1, 2, 3}
Files ==
    {[state |-> "missing", rows |-> <<>>], [state |-> "malformed", rows |-> <<>>]}
        \cup {[state |-> "ok", rows |-> r] : r \in SeqsUpTo(CsvCells, MaxFileRows)}

\* pd.read_csv: the table of a readable file, FileNotFoundError for a missing
\* one, ParserError for one that is not CSV.
read_csv(f) ==
    IF f.state = "ok" THEN [ok |-> TRUE, df |-> f.rows]
    ELSE [ok |-> FALSE,
          error |-> IF f.state = "missing" THEN "FileNotFoundError"
                    ELSE "ParserError"]

\* What a call does: the DataFrame it returns or the exception it raises, and
\* the logging records it emits.
load_data_swallow(f) ==
    LET r == read_csv(f)
    IN  IF r.ok
        THEN [kind |-> "returned", df |-> r.df,
              log |-> <<[level |-> "INFO", rows |-> Len(r.df)]>>]
        ELSE [kind |-> "returned", df |-> <<>>,
              log |-> <<[level |-> "ERROR", error |-> r.error]>>]
load_data(f) ==
    LET r == read_csv(f)
    IN  IF r.ok
        THEN [kind |-> "returned", df |-> r.df,
              log |-> <<[level |-> "INFO", rows |-> Len(r.df)]>>]
        ELSE [kind |-> "raised", error |-> r.error,
              log |-> <<[level |-> "ERROR", error |-> r.error]>>]

\* data_preparation.py carries its own copy of the function.
load_data_preparation(f) ==
    LET r == read_csv(f)
    IN  IF r.ok
        THEN [kind |-> "returned", df |-> r.df,
              log |-> <<[level |-> "INFO", rows |-> Len(r.df)]>>]
        ELSE [kind |-> "raised", error |-> r.error,
              log |-> <<[level |-> "ERROR", error |-> r.error]>>]

InitLoad ==
    /\ file \in Files
    /\ loaded = [kind |-> "none"]
    /\ lastLog = <<>>

call_load_data ==
    /\ UNCHANGED notLoad
    /\ LET r == load_data(file)
       IN  /\ loaded' = [fn |-> "data_io"] @@ [k \in DOMAIN r \ {"log"} |-> r[k]]
           /\ lastLog' = r.log
    /\ UNCHANGED file

call_load_data_preparation ==
    /\ UNCHANGED notLoad
    /\ LET r == load_data_preparation(file)
       IN  /\ loaded' = [fn |-> "data_preparation"]
                            @@ [k \in DOMAIN r \ {"log"} |-> r[k]]
           /\ lastLog' = r.log
    /\ UNCHANGED file

NextLoad == call_load_data \/ call_load_data_preparation

InitDBIdle ==
    /\ df1 = <<>> /\ df2 = <<>> /\ schema = {} /\ db = EmptyDb
    /\ pending = <<>> /\ conn = NoConn /\ cursor = "none" /\ lconn = NoConn
    /\ nOpen = 0 /\ pc = "idle" /\ target = "none" /\ work = <<>> /\ i = 1
    /\ merged = <<>> /\ printed = <<>> /\ runs = 0

InitSpecLoad == InitLoad /\ InitDBIdle /\ InitStatsIdle /\ InitOthersIdle

SpecLoad == InitSpecLoad /\ [][NextLoad]_vars

HasLevel(log, level) == \E k \in 1..Len(log) : log[k].level = level

\* C6: a load_data call on a file that cannot be read logs the error and
\* raises it, returning no DataFrame; on a readable file it returns the table
\* read_csv produced, unchanged, and logs no error.
C6_LoadDataReraises ==
    loaded.kind # "none" =>
        IF file.state = "ok"
        THEN /\ loaded.kind = "returned"
             /\ loaded.df = file.rows
             /\ ~HasLevel(lastLog, "ERROR")
        ELSE /\ loaded.kind = "raised"
             /\ "df" \notin DOMAIN loaded
             /\ loaded.error = read_csv(file).error
             /\ HasLevel(lastLog, "ERROR")

\* C6's case: load_data of data_io.py was called on a malformed file.
C6_Witness ==
    /\ loaded.kind # "none"
    /\ loaded.fn = "data_io"
    /\ file.state = "malformed"

----------------------------------------------------------------------------
(* etl_pipeline: plot_box_compare and get_quartile_category_teachers_list. *)
(*                                                                         *)
(* A statistics table is a sequence of rows [name_normalized, percent]:    *)
(* percent stands for percent_of_loss_for_one_group.  Quantiles are kept   *)
(* as four times their value, so that the linear interpolation pandas and  *)
(* numpy apply between two order statistics stays in the integers.         *)

TeacherOrder == <<"Avdeenko", "Bondar", "Chaus", "Datsenko", "Fedorenko",
                  "Honcharuk", "Ivanenko", "Klymenko", "Lysenko">>
LossValues == {0, 1, 2}

\* The tables get_loss_dataframe can return: one row per teacher, in the
\* order groupby leaves them.
StatsTables(n) ==
    {[k \in 1..n |-> [name_normalized |-> TeacherOrder[k], percent |-> v[k]]] :
        v \in [1..n -> LossValues]}

values_of(df) == [k \in 1..Len(df) |-> df[k].percent]

\* The k-th smallest of a sequence of numbers.
kth(vals, k) ==
    CHOOSE x \in {vals[j] : j \in 1..Len(vals)} :
        /\ Cardinality({j \in 1..Len(vals) : vals[j] < x}) < k
        /\ Cardinality({j \in 1..Len(vals) : vals[j] <= x}) >= k

\* Series.quantile(q4 / 4), times four: the order statistic at position
\* (n - 1) * q, interpolated linearly with the next one.
quantile_x4(vals, q4) ==
    LET n   == Len(vals)
        pos == (n - 1) * q4
        lo  == pos \div 4
        a   == kth(vals, lo + 1)
        b   == kth(vals, IF lo + 2 <= n THEN lo + 2 ELSE n)
    IN  4 * a + (pos % 4) * (b - a)

\* np.percentile(values, p), times four, for p a multiple of 25.
percentile_x4(vals, p) == quantile_x4(vals, p \div 25)

\* df[...]["name_normalized"].tolist()
names_of(df) == [k \in 1..Len(df) |-> df[k].name_normalized]

\* list_for_indicator of get_quartile_category_teachers_list (lines 99-108).
\* The quantile of an empty column is NaN, and no value compares with NaN.
list_for_indicator_open(df, indicator, Q1, Q3) ==
    LET vals == values_of(df)
        q    == quantile_x4(vals, indicator)
        iq1  == quantile_x4(vals, Q1)
        iq3  == quantile_x4(vals, Q3)
    IN  IF df = <<>> THEN <<>>
        ELSE IF indicator = Q1
        THEN names_of(SelectSeq(df, LAMBDA r : 4 * r.percent < q))
        ELSE IF indicator = Q3
        THEN names_of(SelectSeq(df, LAMBDA r : 4 * r.percent > q))
        ELSE names_of(SelectSeq(df, LAMBDA r : /\ 4 * r.percent > iq1
                                                  /\ 4 * r.percent < iq3))
list_for_indicator_inclusive(df, indicator, Q1, Q3) ==
    LET vals == values_of(df)
        q    == quantile_x4(vals, indicator)
        iq1  == quantile_x4(vals, Q1)
        iq3  == quantile_x4(vals, Q3)
    IN  IF df = <<>> THEN <<>>
        ELSE IF indicator = Q1
        THEN names_of(SelectSeq(df, LAMBDA r : 4 * r.percent <= q))
        ELSE IF indicator = Q3
        THEN names_of(SelectSeq(df, LAMBDA r : 4 * r.percent >= q))
        ELSE names_of(SelectSeq(df, LAMBDA r : /\ 4 * r.percent >= iq1
                                                  /\ 4 * r.percent <= iq3))
list_for_indicator(df, indicator, Q1, Q3) ==
    LET vals == values_of(df)
        q    == quantile_x4(vals, indicator)
        iq1  == quantile_x4(vals, Q1)
        iq3  == quantile_x4(vals, Q3)
    IN  IF df = <<>> THEN <<>>
        ELSE IF indicator = Q1
        THEN names_of(SelectSeq(df, LAMBDA r : 4 * r.percent < q))
        ELSE IF indicator = Q3
        THEN names_of(SelectSeq(df, LAMBDA r : 4 * r.percent > q))
        ELSE names_of(SelectSeq(df, LAMBDA r : /\ 4 * r.percent >= iq1
                                                  /\ 4 * r.percent <= iq3))

\* The default quantiles of the signature (0.25, 0.5, 0.75), in quarters.
DefaultQ1 == 1
DefaultQ2 == 2
DefaultQ3 == 3

get_quartile_category_teachers_list(df, Q1, Q2, Q3) ==
    [best          |-> list_for_indicator(df, Q1, Q1, Q3),
     interquartile |-> list_for_indicator(df, Q2, Q1, Q3),
     bad           |-> list_for_indicator(df, Q3, Q1, Q3)]

\* The IQR fences of plot_box_compare (lines 124-128), times eight:
\* lower_bound = q1 - 1.5 * iqr, upper_bound = q3 + 1.5 * iqr.
fences_x8(vals) ==
    LET q1  == percentile_x4(vals, 25)
        q3  == percentile_x4(vals, 75)
        iqr == q3 - q1
    IN  [lower |-> 2 * q1 - 3 * iqr, upper |-> 2 * q3 + 3 * iqr]

\* The test of line 131.
is_outlier(y, f) == 8 * y < f.lower \/ 8 * y > f.upper

with_year(df, year) ==
    [k \in 1..Len(df) |->
        [name_normalized |-> df[k].name_normalized,
         percent |-> df[k].percent, year |-> year]]

RECURSIVE outliers_by_year(_, _)
outliers_by_year(combined, labels) ==
    IF labels = <<>> THEN <<>>
    ELSE LET subset == SelectSeq(combined, LAMBDA r : r.year = Head(labels))
             f      == fences_x8(values_of(subset))
         IN  names_of(SelectSeq(subset, LAMBDA r : is_outlier(r.percent, f)))
                 \o outliers_by_year(combined, Tail(labels))

RECURSIVE outliers_pooled(_, _)
outliers_pooled(combined, labels) ==
    IF labels = <<>> THEN <<>>
    ELSE LET subset == SelectSeq(combined, LAMBDA r : r.year = Head(labels))
             f      == fences_x8(values_of(combined))
         IN  names_of(SelectSeq(subset, LAMBDA r : is_outlier(r.percent, f)))
                 \o outliers_pooled(combined, Tail(labels))

\* plot_box_compare: the list it returns.
plot_box_compare_pooled(d1, d2, labels) ==
    outliers_pooled(with_year(d1, labels[1]) \o with_year(d2, labels[2]), labels)
plot_box_compare(d1, d2, labels) ==
    outliers_by_year(with_year(d1, labels[1]) \o with_year(d2, labels[2]), labels)

\* stats[~stats["name_normalized"].isin(outliers_teachers_all)]
\* (without_outliers_kept: the table as it is, no teacher removed.)
without_outliers_kept(df, out) == df
without_outliers(df, out) ==
    SelectSeq(df, LAMBDA r : \A k \in 1..Len(out) : out[k] # r.name_normalized)

Labels == <<"2022/2023", "2023/2024">>
NoLists == [best |-> <<>>, interquartile |-> <<>>, bad |-> <<>>]

InitStats ==
    /\ \E n \in 1..(MaxStatRows - 1) :
          /\ stats1 \in StatsTables(n)
          /\ \E m \in 1..(MaxStatRows - n) : stats2 \in StatsTables(m)
    /\ outliers = <<>>
    /\ quart1 = NoLists
    /\ quart2 = NoLists
    /\ spc = "idle"

\* etl_pipeline/main.py, lines 146-151.
box_compare ==
    /\ UNCHANGED notStats
    /\ UNCHANGED analysisVars
    /\ spc = "idle"
    /\ outliers' = plot_box_compare(stats1, stats2, Labels)
    /\ spc' = "outliers"
    /\ UNCHANGED <<stats1, stats2, quart1, quart2>>

\* etl_pipeline/main.py, lines 196 and 199.
quartiles_22_23 ==
    /\ UNCHANGED notStats
    /\ UNCHANGED analysisVars
    /\ spc = "outliers"
    /\ quart1' = get_quartile_category_teachers_list(
                     without_outliers(stats1, outliers),
                     DefaultQ1, DefaultQ2, DefaultQ3)
    /\ spc' = "quartiles_22_23"
    /\ UNCHANGED <<stats1, stats2, outliers, quart2>>

\* etl_pipeline/main.py, lines 197 and 200.
quartiles_23_24 ==
    /\ UNCHANGED notStats
    /\ UNCHANGED analysisVars
    /\ spc = "quartiles_22_23"
    /\ quart2' = get_quartile_category_teachers_list(
                     without_outliers(stats2, outliers),
                     DefaultQ1, DefaultQ2, DefaultQ3)
    /\ spc' = "quartiles_23_24"
    /\ UNCHANGED <<stats1, stats2, outliers, quart1>>

NextStats == box_compare \/ quartiles_22_23 \/ quartiles_23_24

InitSpecStats == InitStats /\ InitDBIdle /\ InitLoadIdle /\ InitOthersIdle

SpecStats == InitSpecStats /\ [][NextStats]_vars

----------------------------------------------------------------------------
(* Claims about the teacher categories, checked under SpecStats.           *)

Clean1 == without_outliers(stats1, outliers)
Clean2 == without_outliers(stats2, outliers)

InList(list, name) == \E k \in 1..Len(list) : list[k] = name
Count(list, name) == Cardinality({k \in 1..Len(list) : list[k] = name})

\* The three lists hold the teachers of df below the first quartile, above the
\* third, and from the first to the third, and nobody else.
ClassifiedByQuartiles(df, lists) ==
    LET q1 == IF df = <<>> THEN 0 ELSE quantile_x4(values_of(df), DefaultQ1)
        q3 == IF df = <<>> THEN 0 ELSE quantile_x4(values_of(df), DefaultQ3)
        teachers == {df[k].name_normalized : k \in 1..Len(df)}
    IN  /\ \A k \in 1..Len(df) :
              LET t == df[k].name_normalized
                  v == 4 * df[k].percent
              IN  /\ Count(lists.best, t) = IF v < q1 THEN 1 ELSE 0
                  /\ Count(lists.bad, t) = IF v > q3 THEN 1 ELSE 0
                  /\ Count(lists.interquartile, t)
                         = IF q1 <= v /\ v <= q3 THEN 1 ELSE 0
        /\ \A c \in {"best", "bad", "interquartile"} :
              \A k \in 1..Len(lists[c]) : lists[c][k] \in teachers

\* C9: get_quartile_category_teachers_list puts in 'best' exactly the teachers
\* whose value is strictly below q1, in 'bad' exactly those strictly above q3,
\* and in 'interquartile' exactly those with q1 <= value <= q3.
C9_QuartileCategories ==
    /\ spc \in {"quartiles_22_23", "quartiles_23_24"} =>
           ClassifiedByQuartiles(Clean1, quart1)
    /\ spc = "quartiles_23_24" => ClassifiedByQuartiles(Clean2, quart2)

\* C9's case: a year with a best and a bad teacher and one whose value is
\* the third quartile itself.
C9_Witness ==
    /\ spc = "quartiles_23_24"
    /\ quart2.best # <<>>
    /\ quart2.bad # <<>>
    /\ \E k \in 1..Len(Clean1) :
          /\ 4 * Clean1[k].percent = quantile_x4(values_of(Clean1), DefaultQ3)
          /\ InList(quart1.interquartile, Clean1[k].name_normalized)
          /\ quart1.best # <<>>

\* The teachers whose value lies outside the fences of the table's own values.
OutliersOf(df) ==
    LET vals == values_of(df)
        q1   == percentile_x4(vals, 25)
        q3   == percentile_x4(vals, 75)
    IN  {df[k].name_normalized : k \in
            {j \in 1..Len(df) :
                \/ 8 * df[j].percent < 2 * q1 - 3 * (q3 - q1)
                \/ 8 * df[j].percent > 2 * q3 + 3 * (q3 - q1)}}

\* C10: plot_box_compare returns a teacher once for every year in which the
\* teacher's value is below q1 - 1.5 * iqr or above q3 + 1.5 * iqr of that
\* year's values: twice for an outlier of both years, never for a teacher who
\* is an outlier of no year.
C10_OutliersPerYear ==
    spc \in {"outliers", "quartiles_22_23", "quartiles_23_24"} =>
        LET o1 == OutliersOf(stats1)
            o2 == OutliersOf(stats2)
        IN  \A k \in 1..Len(TeacherOrder) :
                Count(outliers, TeacherOrder[k])
                    = (IF TeacherOrder[k] \in o1 THEN 1 ELSE 0)
                      + (IF TeacherOrder[k] \in o2 THEN 1 ELSE 0)

\* C10's case: a teacher who is an outlier of both years is returned twice.
C10_Witness ==
    /\ spc = "outliers"
    /\ \E a \in 1..Len(outliers) : Count(outliers, outliers[a]) = 2

----------------------------------------------------------------------------
(* etl_pipeline/preprocessing.py: categorize_age.                          *)

MaxAgeRows == 2    \* rows of the DataFrame categorize_age is given

NA == 0 - 1        \* a missing numeric cell (NaN in a column of numbers)

AgeValues == (5..18) \cup {NA}

bins   == <<6, 8, 10, 13, 17>>
labels == <<"A", "B", "C", "D">>

\* pd.cut(x, bins=b, labels=l, include_lowest=True): the label of the
\* interval (b[k], b[k+1]] that holds x, the first interval closed on the
\* left as well; NaN for a value in no interval and for a missing value.
cut(x, b, l) ==
    LET hit == {k \in 1..Len(l) :
                   \/ b[k] < x /\ x <= b[k + 1]
                   \/ k = 1 /\ x = b[1]}
    IN  IF x = NA \/ hit = {} THEN NaN ELSE l[CHOOSE k \in hit : TRUE]

\* categorize_age(df, "age"): the columns age_group and out_of_range_age.
categorize_age(df) ==
    [k \in 1..Len(df) |->
        LET g == cut(df[k].age, bins, labels)
        IN  [age |-> df[k].age,
             age_group |-> g,
             out_of_range_age |-> (g = NaN /\ df[k].age # NA)]]

InitAge ==
    /\ age_df \in SeqsUpTo([age : AgeValues], MaxAgeRows)
    /\ agepc = "idle"

\* etl_pipeline/main.py, line 111.
call_categorize_age ==
    /\ UNCHANGED notAge
    /\ agepc = "idle"
    /\ age_df' = categorize_age(age_df)
    /\ agepc' = "done"

NextAge == call_categorize_age

InitSpecAge ==
    /\ InitAge /\ InitDBIdle /\ InitLoadIdle /\ InitStatsIdle
    /\ InitAnalysisIdle /\ InitLossIdle /\ InitApiIdle /\ InitCausalIdle
    /\ InitPrepIdle /\ InitNameIdle

SpecAge == InitSpecAge /\ [][NextAge]_vars

\* The ages the pipeline reports for an age group (main.py, lines 57-66 and
\* 158-163).
ReportedAges(g) ==
    CASE g = "A" -> 7..8
      [] g = "B" -> 9..10
      [] g = "C" -> 11..12
      [] g = "D" -> 13..14

\* C13: after categorize_age a student is in group A exactly when aged 7-8,
\* in B exactly when aged 9-10, in C exactly when aged 11-12 and in D exactly
\* when aged 13-14.
C13_AgeGroupsAsReported ==
    agepc = "done" =>
        \A k \in 1..Len(age_df) :
            \A g \in {"A", "B", "C", "D"} :
                age_df[k].age_group = g <=> age_df[k].age \in ReportedAges(g)

----------------------------------------------------------------------------
(* etl_pipeline/analytics.py: get_loss_dataframe, as step 5 of             *)
(* etl_pipeline/main.py calls it.                                          *)
(*                                                                         *)
(* A date is the number yyyymmdd; NaT is the date to_datetime gives an     *)
(* invalid value, and no comparison with NaT is true.  A table whose rows  *)
(* need not have the same columns is [columns, rows], a row being a        *)
(* function on the columns.                                                *)

MaxLossRows == 3   \* rows of the loss report df

NaT == 0
LossTeachers == <<"Bondar", "Chaus">>      \* in sorted order
StartDates == {NaT, 20220731, 20220801, 20230731, 20230801, 20240801}

\* A row of df after step 2: main.py line 93 sets count to 1 in every row.
LossRow ==
    [name_normalized : {LossTeachers[k] : k \in 1..Len(LossTeachers)},
     start_date : StartDates, count : {1}]

\* The periods of the two calls (main.py, lines 126-140) and of the filter of
\* step 3 (line 116).
Year_22_23 == [start_date |-> 20220801, finish_date |-> 20230731]
Year_23_24 == [start_date |-> 20230801, finish_date |-> 20240731]
BothYears  == [start_date |-> 20220801, finish_date |-> 20240731]

\* A groups_and_losts CSV: a row for each of the teachers it lists, with or
\* without the column count_of_loss.  The file is written by hand, and a
\* teacher may be listed twice.
GroupsColumns == {"name_normalized", "number_of_students", "number_of_group"}
groups_file(teachers, with_count_of_loss) ==
    LET cols == GroupsColumns \cup
                    (IF with_count_of_loss THEN {"count_of_loss"} ELSE {})
    IN  [columns |-> cols,
         rows |-> [k \in 1..Len(teachers) |->
                      [c \in cols |->
                          CASE c = "name_normalized" -> teachers[k]
                            [] c = "number_of_students" -> 20 * k
                            [] c = "number_of_group" -> k
                            [] c = "count_of_loss" -> k]]]
GroupsFiles ==
    {groups_file(t, c) :
        t \in {LossTeachers, SubSeq(LossTeachers, 1, 1),
               <<LossTeachers[1], LossTeachers[1]>>},
        c \in BOOLEAN}

\* dframe[(dframe["start_date"] >= start_date)
\*        & (dframe["start_date"] <= finish_date)]
period_rows_open_end(df, period) ==
    SelectSeq(df, LAMBDA r : /\ r.start_date # NaT
                             /\ r.start_date >= period.start_date
                             /\ r.start_date < period.finish_date)
period_rows(df, period) ==
    SelectSeq(df, LAMBDA r : /\ r.start_date # NaT
                             /\ r.start_date >= period.start_date
                             /\ r.start_date <= period.finish_date)

RECURSIVE sum_count(_)
sum_count(df) == IF df = <<>> THEN 0 ELSE Head(df).count + sum_count(Tail(df))

\* df_period.groupby("name_normalized", as_index=False)["count"].sum(): one
\* row for each name that occurs, in sorted order.
groupby_sum(df) ==
    LET present == SelectSeq(LossTeachers,
                       LAMBDA t : \E k \in 1..Len(df) :
                                      df[k].name_normalized = t)
    IN  [k \in 1..Len(present) |->
            [name_normalized |-> present[k],
             count |-> sum_count(SelectSeq(df,
                           LAMBDA r : r.name_normalized = present[k]))]]

\* One row of pd.merge(stats, groups_and_losts, on="name_normalized",
\* how="left"): a copy for each row of the file with the name, or one copy
\* with the file's columns missing.
merge_groups_row(r, csv) ==
    LET cols == {"name_normalized", "count"} \cup csv.columns
        m    == SelectSeq(csv.rows,
                    LAMBDA g : g["name_normalized"] = r.name_normalized)
        row(g) == [c \in cols |->
                      IF c = "name_normalized" THEN r.name_normalized
                      ELSE IF c = "count" THEN r.count
                      ELSE g[c]]
        none == [c \in csv.columns |-> NaN]
    IN  IF m = <<>> THEN <<row(none)>>
        ELSE [n \in 1..Len(m) |-> row(m[n])]

RECURSIVE merge_groups(_, _)
merge_groups(stats, csv) ==
    IF stats = <<>> THEN <<>>
    ELSE merge_groups_row(Head(stats), csv) \o merge_groups(Tail(stats), csv)

\* stats.drop(columns=[column]): KeyError when the table has no such column.
drop_column(cols, rows, column) ==
    IF column \notin cols THEN [kind |-> "raised", error |-> "KeyError"]
    ELSE [kind |-> "returned",
          columns |-> cols \ {column},
          rows |-> [k \in 1..Len(rows) |->
                       [c \in cols \ {column} |-> rows[k][c]]]]

\* get_loss_dataframe: what it returns or raises.  The two percent columns
\* computed from the result (lines 72-73) are left out.
get_loss_dataframe(df, period, csv) ==
    LET df_period == period_rows(df, period)
        stats     == groupby_sum(df_period)
        merged_   == merge_groups(stats, csv)
    IN  drop_column({"name_normalized", "count"} \cup csv.columns, merged_,
                    "count_of_loss")

\* df_filtered of main.py line 116.
df_filtered == period_rows(dframe, BothYears)

InitLoss ==
    /\ dframe \in SeqsUpTo(LossRow, MaxLossRows)
    /\ groups_and_losts \in [{1, 2} -> GroupsFiles]
    /\ loss = <<>>
    /\ lpc = "stats_22_23"

\* main.py, lines 126-132.  An exception is not caught: the script ends.
stats_22_23 ==
    /\ UNCHANGED notLoss
    /\ lpc = "stats_22_23"
    /\ LET r == get_loss_dataframe(df_filtered, Year_22_23, groups_and_losts[1])
       IN  /\ loss' = Append(loss, r)
           /\ lpc' = IF r.kind = "raised" THEN "raised" ELSE "stats_23_24"
    /\ UNCHANGED <<dframe, groups_and_losts>>

\* main.py, lines 134-140.
stats_23_24 ==
    /\ UNCHANGED notLoss
    /\ lpc = "stats_23_24"
    /\ LET r == get_loss_dataframe(df_filtered, Year_23_24, groups_and_losts[2])
       IN  /\ loss' = Append(loss, r)
           /\ lpc' = IF r.kind = "raised" THEN "raised" ELSE "done"
    /\ UNCHANGED <<dframe, groups_and_losts>>

NextLoss == stats_22_23 \/ stats_23_24

InitSpecLoss ==
    /\ InitLoss /\ InitDBIdle /\ InitLoadIdle /\ InitStatsIdle
    /\ InitAnalysisIdle /\ InitAgeIdle /\ InitApiIdle /\ InitCausalIdle
    /\ InitPrepIdle /\ InitNameIdle

SpecLoss == InitSpecLoss /\ [][NextLoss]_vars

PeriodOfCall == <<Year_22_23, Year_23_24>>

\* The loss rows of a teacher that the n-th call was given with a start_date
\* from the first to the last day of the call's period.
LossRowsIn(n, t) ==
    {k \in 1..Len(df_filtered) :
        /\ df_filtered[k].name_normalized = t
        /\ df_filtered[k].start_date # NaT
        /\ PeriodOfCall[n].start_date <= df_filtered[k].start_date
        /\ df_filtered[k].start_date <= PeriodOfCall[n].finish_date}

\* The rows the groups CSV of the n-th call has for a teacher.
ListedIn(n, t) ==
    {k \in 1..Len(groups_and_losts[n].rows) :
        groups_and_losts[n].rows[k]["name_normalized"] = t}

\* C11, as claimed: the table get_loss_dataframe returns has one row for
\* every teacher with a loss row whose start_date is in the closed interval
\* of the call and no row for any other teacher, and the count of the row is
\* the number of these loss rows; a row outside the interval is counted
\* nowhere.
C11_OneRowPerTeacherInPeriod ==
    \A n \in 1..Len(loss) :
        loss[n].kind = "returned" =>
            \A j \in 1..Len(LossTeachers) :
                LET t    == LossTeachers[j]
                    mine == {k \in 1..Len(loss[n].rows) :
                                loss[n].rows[k]["name_normalized"] = t}
                IN  /\ Cardinality(mine) =
                           (IF LossRowsIn(n, t) = {} THEN 0 ELSE 1)
                    /\ \A k \in mine :
                           loss[n].rows[k]["count"]
                               = Cardinality(LossRowsIn(n, t))

\* C11, amended: the table get_loss_dataframe returns has rows for the
\* teachers with a loss row whose start_date is in the closed interval of the
\* call and for no other teacher: one row for a teacher the groups CSV lists
\* once or not at all, otherwise as many rows as the CSV has for the teacher;
\* the count of each of them is the number of these loss rows, and a row
\* outside the interval is counted nowhere.
C11_RowsPerTeacherInPeriod ==
    \A n \in 1..Len(loss) :
        loss[n].kind = "returned" =>
            \A j \in 1..Len(LossTeachers) :
                LET t    == LossTeachers[j]
                    mine == {k \in 1..Len(loss[n].rows) :
                                loss[n].rows[k]["name_normalized"] = t}
                IN  /\ Cardinality(mine) =
                           (IF LossRowsIn(n, t) = {} THEN 0
                            ELSE IF ListedIn(n, t) = {} THEN 1
                            ELSE Cardinality(ListedIn(n, t)))
                    /\ \A k \in mine :
                           loss[n].rows[k]["count"]
                               = Cardinality(LossRowsIn(n, t))

\* C11's case: both calls returned; a teacher has two loss rows in the first
\* year, one of them on its last day, and a row that no year counts; the
\* groups CSV of the first year lists the teacher twice and the table has
\* two rows for the teacher.
C11_Witness ==
    /\ lpc = "done"
    /\ Cardinality(ListedIn(1, LossTeachers[1])) = 2
    /\ Cardinality({k \in 1..Len(loss[1].rows) :
                       /\ loss[1].rows[k]["name_normalized"] = LossTeachers[1]
                       /\ loss[1].rows[k]["count"] = 2}) = 2
    /\ \E k \in 1..Len(dframe) :
          dframe[k].start_date = Year_22_23.finish_date
    /\ \E k \in 1..Len(dframe) :
          dframe[k].start_date \in {NaT, 20220731, 20240801}

\* C12: a call of get_loss_dataframe completes normally whether or not the
\* groups CSV has the column count_of_loss, and the table it returns does not
\* have that column.
C12_CountOfLossOptional ==
    /\ lpc # "raised"
    /\ \A n \in 1..Len(loss) :
          loss[n].kind = "returned" /\ "count_of_loss" \notin loss[n].columns

----------------------------------------------------------------------------
(* etl_pipeline/main.py, lines 204-259: get_teacher_analysis, and          *)
(* data_analysis/feature_engineering.py main(), lines 293-305: the teacher *)
(* groups A-D computed from data/teachers_analysis.csv.                    *)

MaxAnalysisRows == 5   \* rows of stats_22_23 and stats_23_24 together

CATEGORY_COLS == <<"best", "interquart", "bad", "worst">>

\* Counter(list).get(x, 0)
counts_get(list, x) == Cardinality({k \in 1..Len(list) : list[k] = x})

\* get_teacher_analysis: the rows of the table it returns, one for each name
\* of set(best_all) | set(interquart_all) | set(bad_all) | set(outliers_all).
get_teacher_analysis_flags(best_all, interquart_all, bad_all, outliers_all) ==
    LET all_names == UNION {{l[k] : k \in 1..Len(l)} :
                        l \in {best_all, interquart_all, bad_all, outliers_all}}
        flag(l, x) == IF counts_get(l, x) > 0 THEN 1 ELSE 0
    IN  {[name       |-> x,
          best       |-> flag(best_all, x),
          interquart |-> flag(interquart_all, x),
          bad        |-> flag(bad_all, x),
          worst      |-> flag(outliers_all, x)] : x \in all_names}
get_teacher_analysis(best_all, interquart_all, bad_all, outliers_all) ==
    LET all_names == UNION {{l[k] : k \in 1..Len(l)} :
                        l \in {best_all, interquart_all, bad_all, outliers_all}}
    IN  {[name       |-> x,
          best       |-> counts_get(best_all, x),
          interquart |-> counts_get(interquart_all, x),
          bad        |-> counts_get(bad_all, x),
          worst      |-> counts_get(outliers_all, x)] : x \in all_names}

\* The orders list(all_names) can put the rows in: the iteration order of a
\* set of strings is not fixed.
Orders(S) ==
    {f \in [1..Cardinality(S) -> S] :
        \A a, b \in 1..Cardinality(S) : f[a] = f[b] => a = b}

\* TEACHER_GROUPS and the mask of group B (feature_engineering.py, lines
\* 82-87 and 302-304).
\* (teacher_group_condition_once: the same with group A asking for a count of
\* at least 1.)
teacher_group_condition_once(group, r) ==
    CASE group = "A" -> r.best >= 1 \/ r.interquart >= 1 \/ r.bad >= 1
                            \/ r.worst >= 1
      [] group = "B" -> \E a, b \in 1..Len(CATEGORY_COLS) :
                            /\ a < b
                            /\ r[CATEGORY_COLS[a]] = 1
                            /\ r[CATEGORY_COLS[b]] = 1
      [] group = "C" -> r.best = 1
      [] group = "D" -> r.bad = 1
teacher_group_condition(group, r) ==
    CASE group = "A" -> r.best = 2 \/ r.interquart = 2 \/ r.bad = 2 \/ r.worst = 2
      [] group = "B" -> \E a, b \in 1..Len(CATEGORY_COLS) :
                            /\ a < b
                            /\ r[CATEGORY_COLS[a]] = 1
                            /\ r[CATEGORY_COLS[b]] = 1
      [] group = "C" -> r.best = 1
      [] group = "D" -> r.bad = 1

\* save_teacher_group: the names written to data/teachers_<group>.csv.
save_teacher_group(df, group) ==
    LET g == SelectSeq(df, LAMBDA r : teacher_group_condition(group, r))
    IN  [k \in 1..Len(g) |-> g[k].name]

InitAnalysis ==
    /\ \E n \in 1..(MaxAnalysisRows - 1) :
          /\ stats1 \in StatsTables(n)
          /\ \E m \in 1..(MaxAnalysisRows - n) : stats2 \in StatsTables(m)
    /\ outliers = <<>>
    /\ quart1 = NoLists
    /\ quart2 = NoLists
    /\ spc = "idle"
    /\ df_analysis = <<>>
    /\ teacher_groups = <<>>

\* etl_pipeline/main.py, lines 204-259: the lists of the two years are
\* concatenated, and the table is written to data/teachers_analysis.csv.
teacher_analysis ==
    /\ UNCHANGED notStats
    /\ spc = "quartiles_23_24"
    /\ df_analysis' \in Orders(get_teacher_analysis(
                                  quart1.best \o quart2.best,
                                  quart1.interquartile \o quart2.interquartile,
                                  quart1.bad \o quart2.bad,
                                  outliers))
    /\ spc' = "analysis"
    /\ UNCHANGED <<stats1, stats2, outliers, quart1, quart2, teacher_groups>>

\* feature_engineering.py main(), lines 293-305.
save_teacher_groups ==
    /\ UNCHANGED notStats
    /\ spc = "analysis"
    /\ teacher_groups' =
           [g \in {"A", "B", "C", "D"} |-> save_teacher_group(df_analysis, g)]
    /\ spc' = "groups"
    /\ UNCHANGED <<stats1, stats2, outliers, quart1, quart2, df_analysis>>

NextAnalysis ==
    \/ box_compare
    \/ quartiles_22_23
    \/ quartiles_23_24
    \/ teacher_analysis
    \/ save_teacher_groups

InitSpecAnalysis ==
    /\ InitAnalysis /\ InitDBIdle /\ InitLoadIdle
    /\ InitLossIdle /\ InitAgeIdle /\ InitApiIdle /\ InitCausalIdle
    /\ InitPrepIdle /\ InitNameIdle

SpecAnalysis == InitSpecAnalysis /\ [][NextAnalysis]_vars

\* The four lists get_teacher_analysis is given.
ListOf(c) ==
    CASE c = "best" -> quart1.best \o quart2.best
      [] c = "interquart" -> quart1.interquartile \o quart2.interquartile
      [] c = "bad" -> quart1.bad \o quart2.bad
      [] c = "worst" -> outliers

Named == UNION {{ListOf(c)[k] : k \in 1..Len(ListOf(c))} :
                    c \in {"best", "interquart", "bad", "worst"}}

AnalysisRowsOf(t) == {k \in 1..Len(df_analysis) : df_analysis[k].name = t}

C18_GroupsCoverBestAndBad ==
    spc = "groups" =>
        \A k \in 1..Len(TeacherOrder) :
            LET t == TeacherOrder[k]
            IN  /\ (InList(quart1.best, t) \/ InList(quart2.best, t))
                       => InList(teacher_groups["C"], t)
                /\ (InList(quart1.bad, t) \/ InList(quart2.bad, t))
                       => InList(teacher_groups["D"], t)

----------------------------------------------------------------------------
(* loss_students_data_pipeline.py: get_student_ids and get_attendance.     *)
(*                                                                         *)
(* A string is the sequence of its characters.  A JSON object is a record  *)
(* with the keys it has.  What requests.get does is not in the program's   *)
(* hands: every call can end in an exception, in a status other than 200   *)
(* or in 200 with any of the bodies below.                                 *)

MaxApiRows == 2    \* rows of data/Raw_data.csv
MaxRoster  == 2    \* students of a group in the API's answer
MaxLessons == 2    \* lessons in the API's answer

GroupIds == {7}
FullNames   == {<<"A">>, <<" ", "a", "b">>}     \* "ПІБ студента"
RosterNames == {<<"a">>, <<"A", "b">>, <<"b", " ">>}   \* "fullName"

\* str.lower() and str.strip() on these characters.
lower(s) ==
    [k \in 1..Len(s) |->
        IF s[k] = "A" THEN "a" ELSE IF s[k] = "B" THEN "b" ELSE s[k]]
strip(s) ==
    LET ink == {k \in 1..Len(s) : s[k] # " "}
    IN  IF ink = {} THEN <<>>
        ELSE SubSeq(s, CHOOSE a \in ink : \A k \in ink : a <= k,
                       CHOOSE b \in ink : \A k \in ink : k <= b)

\* Python's "t in s" on strings.
is_in(t, s) ==
    \E a \in 0..(Len(s) - Len(t)) : SubSeq(s, a + 1, a + Len(t)) = t

\* The roster of a group: the id of a student is unique in it.
Rosters ==
    {[k \in 1..Len(names) |-> [fullName |-> names[k], id |-> 10 + k]] :
        names \in SeqsUpTo(RosterNames, MaxRoster)}

NoResponse == [kind |-> "none"]
Failures == {[kind |-> "status", status_code |-> 404], [kind |-> "exception"]}

\* What GET /api/v2/group/student/index can answer.
StudentResponses ==
    Failures
      \cup {[kind |-> "ok", json |-> [items |-> r]] : r \in Rosters}
      \cup {[kind |-> "ok", json |-> [data |-> [items |-> r]]] : r \in Rosters}
      \cup {[kind |-> "ok", json |-> <<>>]}

\* What GET /api/v1/stats/default/attendance can answer.
Lessons == SeqsUpTo([status : {"present", "absent"}], MaxLessons)
AttendanceResponses ==
    Failures
      \cup {[kind |-> "ok", json |-> <<>>],
            [kind |-> "ok", json |-> [data |-> <<>>]],
            [kind |-> "ok", json |-> [data |-> << <<>> >>]]}
      \cup {[kind |-> "ok", json |-> [data |-> <<[attendance |-> l]>>]] :
               l \in Lessons}

\* data.get("items") or data.get("data", {}).get("items") or []
students_of(data) ==
    IF "items" \in DOMAIN data /\ data.items # <<>> THEN data.items
    ELSE IF "data" \in DOMAIN data /\ "items" \in DOMAIN data.data
                /\ data.data.items # <<>>
    THEN data.data.items
    ELSE <<>>

\* The test of line 134.
name_matches(full_name, student) ==
    LET student_name == lower(strip(student.fullName))
    IN  \/ is_in(lower(full_name), student_name)
        \/ is_in(student_name, lower(full_name))

\* The loop of lines 132-136: the id of the first student of the list whose
\* name matches, or the 0 the column was set to.
find_student_id_last(full_name, students) ==
    LET hits == {k \in 1..Len(students) : name_matches(full_name, students[k])}
    IN  IF hits = {} THEN 0
        ELSE students[CHOOSE k \in hits : \A h \in hits : h <= k].id
find_student_id(full_name, students) ==
    LET hits == {k \in 1..Len(students) : name_matches(full_name, students[k])}
    IN  IF hits = {} THEN 0
        ELSE students[CHOOSE k \in hits : \A h \in hits : k <= h].id

\* data.get("data", [{}])[0].get("attendance", []): IndexError when "data"
\* is an empty list.
attendance_of(data) ==
    IF "data" \notin DOMAIN data THEN [kind |-> "returned", attendance |-> <<>>]
    ELSE IF data.data = <<>> THEN [kind |-> "raised", error |-> "IndexError"]
    ELSE IF "attendance" \notin DOMAIN data.data[1]
    THEN [kind |-> "returned", attendance |-> <<>>]
    ELSE [kind |-> "returned", attendance |-> data.data[1].attendance]

\* sum(1 for lesson in attendance if lesson.get("status") == "present")
count_present(attendance) ==
    Cardinality({k \in 1..Len(attendance) : attendance[k].status = "present"})

\* df1 after prepare_data: "ID групи" is missing where the group's name does
\* not begin with a number.
InitApi ==
    /\ api_df \in SeqsUpTo([name : FullNames, group_id : GroupIds \cup {NA}],
                           MaxApiRows)
    /\ api_i = 1
    /\ apc = "main"
    /\ response = NoResponse
    /\ requests = <<>>

\* get_student_ids, line 95: df["ID студента"] = 0.
get_student_ids_begin ==
    /\ UNCHANGED notApi
    /\ apc = "main"
    /\ api_df' = [k \in 1..Len(api_df) |->
                     [name |-> api_df[k].name, group_id |-> api_df[k].group_id,
                      student_id |-> 0]]
    /\ api_i' = 1
    /\ apc' = "get_student_ids"
    /\ UNCHANGED <<response, requests>>

\* get_student_ids, lines 111-136: one pass of the loop.
get_student_ids_row ==
    /\ UNCHANGED notApi
    /\ apc = "get_student_ids"
    /\ api_i <= Len(api_df)
    /\ LET row       == api_df[api_i]
           full_name == strip(row.name)
       IN  IF row.group_id = NA
           THEN /\ response' = NoResponse
                /\ UNCHANGED <<api_df, requests>>
           ELSE \E r \in StudentResponses :
                  /\ response' = r
                  /\ requests' = Append(requests,
                         [fn |-> "get_student_ids", row |-> api_i,
                          groupId |-> row.group_id])
                  /\ IF r.kind # "ok" THEN UNCHANGED api_df
                     ELSE api_df' = [api_df EXCEPT ![api_i].student_id =
                              LET id == find_student_id(full_name,
                                                        students_of(r.json))
                              IN  IF id = 0 THEN @ ELSE id]
    /\ api_i' = api_i + 1
    /\ UNCHANGED apc

\* main(), lines 263-264: get_student_ids returns; get_attendance, line 183:
\* df["Кількість відвіданих занять"] = 0.
get_attendance_begin ==
    /\ UNCHANGED notApi
    /\ apc = "get_student_ids"
    /\ api_i > Len(api_df)
    /\ api_df' = [k \in 1..Len(api_df) |->
                     [name |-> api_df[k].name, group_id |-> api_df[k].group_id,
                      student_id |-> api_df[k].student_id, attended |-> 0]]
    /\ api_i' = 1
    /\ apc' = "get_attendance"
    /\ response' = NoResponse
    /\ UNCHANGED requests

\* get_attendance, lines 199-223: one pass of the loop.  The IndexError of
\* line 219 is raised outside the try and ends the script.
get_attendance_row ==
    /\ UNCHANGED notApi
    /\ apc = "get_attendance"
    /\ api_i <= Len(api_df)
    /\ LET row == api_df[api_i]
       IN  IF row.student_id = NA \/ row.group_id = NA
           THEN /\ response' = NoResponse
                /\ api_i' = api_i + 1
                /\ UNCHANGED <<api_df, requests, apc>>
           ELSE \E r \in AttendanceResponses :
                  /\ response' = r
                  /\ requests' = Append(requests,
                         [fn |-> "get_attendance", row |-> api_i,
                          group |-> row.group_id, students |-> row.student_id])
                  /\ IF r.kind # "ok"
                     THEN /\ api_i' = api_i + 1
                          /\ UNCHANGED <<api_df, apc>>
                     ELSE LET a == attendance_of(r.json)
                          IN  IF a.kind = "raised"
                              THEN /\ apc' = "raised"
                                   /\ UNCHANGED <<api_df, api_i>>
                              ELSE /\ api_df' = [api_df EXCEPT
                                          ![api_i].attended =
                                              count_present(a.attendance)]
                                   /\ api_i' = api_i + 1
                                   /\ UNCHANGED apc

\* main(), lines 264-268: get_attendance returns.
get_attendance_return ==
    /\ UNCHANGED notApi
    /\ apc = "get_attendance"
    /\ api_i > Len(api_df)
    /\ apc' = "done"
    /\ UNCHANGED <<api_df, api_i, response, requests>>

NextApi ==
    \/ get_student_ids_begin
    \/ get_student_ids_row
    \/ get_attendance_begin
    \/ get_attendance_row
    \/ get_attendance_return

InitSpecApi ==
    /\ InitApi /\ InitDBIdle /\ InitLoadIdle /\ InitStatsIdle
    /\ InitAnalysisIdle /\ InitLossIdle /\ InitAgeIdle /\ InitCausalIdle
    /\ InitPrepIdle /\ InitNameIdle

SpecApi == InitSpecApi /\ [][NextApi]_vars

----------------------------------------------------------------------------
(* Claims about loss_students_data_pipeline.py, checked under SpecApi.     *)

RequestsFor(fn, k) ==
    {n \in 1..Len(requests) : requests[n].fn = fn /\ requests[n].row = k}

\* The rows get_attendance has gone through.
AttendanceDone ==
    IF apc = "done" THEN 1..Len(api_df)
    ELSE IF apc = "get_attendance" THEN 1..(api_i - 1)
    ELSE {}

\* C15: for a row without a student ID or without a group ID get_attendance
\* sends no request and leaves the attended-lessons count at 0; a row whose
\* student get_student_ids did not find (its "ID студента" is still the 0 of
\* line 95) is such a row.
C15_NoRequestWithoutIds ==
    \A k \in AttendanceDone :
        (api_df[k].student_id \in {NA, 0} \/ api_df[k].group_id = NA) =>
            /\ RequestsFor("get_attendance", k) = {}
            /\ api_df[k].attended = 0

\* An answer of the attendance API that carries lessons.
Usable(r) ==
    /\ r.kind = "ok"
    /\ "data" \in DOMAIN r.json
    /\ r.json.data # <<>>
    /\ "attendance" \in DOMAIN r.json.data[1]

\* C16: in get_attendance a row whose request ends in a status other than
\* 200, in an exception or in a 200 body without attendance data keeps the
\* count 0, and the loop goes on to the rows after it; a row with a usable
\* answer gets the number of the returned lessons whose status is 'present'.
C16_UnusableAnswerLeavesZero ==
    [][(apc = "get_attendance" /\ api_i <= Len(api_df)) =>
          /\ apc' = "get_attendance"
          /\ api_i' = api_i + 1
          /\ response'.kind # "none" =>
                api_df'[api_i].attended =
                    IF Usable(response')
                    THEN count_present(response'.json.data[1].attendance)
                    ELSE 0]_vars

\* The students of an answer of the roster API, whichever key carries them.
RosterOf(r) ==
    IF r.kind # "ok" THEN <<>>
    ELSE IF "items" \in DOMAIN r.json THEN r.json.items
    ELSE IF "data" \in DOMAIN r.json THEN r.json.data.items
    ELSE <<>>

Matching(k, r) ==
    {n \in 1..Len(RosterOf(r)) : name_matches(strip(api_df[k].name), RosterOf(r)[n])}

----------------------------------------------------------------------------
(* data_modeling/assessment_of_causal_effect_bonusV1.py and                *)
(* assessment_of_causal_effect_loss_num.py.                                *)
(*                                                                         *)
(* A coefficient is kept in units of 0.0001.  What sm.Logit(y, X).fit()    *)
(* returns for an input CSV is any pair of coefficients.  np.exp and the   *)
(* logistic function 1 / (1 + exp(-x)) are one-to-one, so a value of       *)
(* either is kept as the term that names its argument.                     *)

Scripts == {"bonusV1", "loss_num"}

ConstCoefficients     == {0 - 22541, 0 - 10000, 0 - 5341, 0}
TreatmentCoefficients == {0, 5000, 9050, 13440}

exp(x)   == [fn |-> "exp", of |-> x]
expit(x) == [fn |-> "expit", of |-> x]

\* beta_0 and beta_1 as the scripts set them (bonusV1 lines 66-67, loss_num
\* lines 69-70).
betas(script) ==
    IF script = "bonusV1" THEN [beta_0 |-> 0 - 22541, beta_1 |-> 13440]
    ELSE [beta_0 |-> 0 - 5341, beta_1 |-> 9050]

\* The dictionary results of a script (bonusV1 lines 98-105, loss_num lines
\* 100-107), for the params of its fitted model.
results(script, params) ==
    LET ate     == params.treatment
        beta_0  == betas(script).beta_0
        beta_1  == betas(script).beta_1
        p0      == expit(beta_0)
        p1      == expit(beta_0 + beta_1)
    IN  [kind |-> "saved",
         ATE |-> ate,
         odds_ratio |-> exp(beta_1),
         p0 |-> p0,
         p1 |-> p1,
         abs_increase |-> [fn |-> "percent_points", from |-> p0, to |-> p1]]

NotRun == [s \in Scripts |-> [kind |-> "not run"]]

InitCausal ==
    /\ fitted \in [Scripts -> [const : ConstCoefficients,
                               treatment : TreatmentCoefficients]]
    /\ saved = NotRun
    /\ cpc = "idle"

\* python assessment_of_causal_effect_bonusV1.py
run_bonusV1 ==
    /\ UNCHANGED notCausal
    /\ saved["bonusV1"].kind = "not run"
    /\ saved' = [saved EXCEPT !["bonusV1"] = results("bonusV1", fitted["bonusV1"])]
    /\ cpc' = "bonusV1"
    /\ UNCHANGED fitted

\* python assessment_of_causal_effect_loss_num.py
run_loss_num ==
    /\ UNCHANGED notCausal
    /\ saved["loss_num"].kind = "not run"
    /\ saved' = [saved EXCEPT !["loss_num"] = results("loss_num", fitted["loss_num"])]
    /\ cpc' = "loss_num"
    /\ UNCHANGED fitted

NextCausal == run_bonusV1 \/ run_loss_num

InitSpecCausal ==
    /\ InitCausal /\ InitDBIdle /\ InitLoadIdle /\ InitStatsIdle
    /\ InitAnalysisIdle /\ InitLossIdle /\ InitAgeIdle /\ InitApiIdle
    /\ InitPrepIdle /\ InitNameIdle

SpecCausal == InitSpecCausal /\ [][NextCausal]_vars

\* C19: the Odds Ratio, p0, p1 and absolute change a script saves are computed
\* from the coefficients of the model it fitted: the Odds Ratio is exp of the
\* saved ATE, p0 is the logistic function of the fitted constant and p1 that
\* of the constant plus the treatment coefficient, so that fits with
\* different coefficients save different values.
C19_SavedEffectsComeFromFit ==
    \A s \in Scripts :
        saved[s].kind = "saved" =>
            LET p0 == expit(fitted[s].const)
                p1 == expit(fitted[s].const + fitted[s].treatment)
            IN  /\ saved[s].ATE = fitted[s].treatment
                /\ saved[s].odds_ratio = exp(saved[s].ATE)
                /\ saved[s].p0 = p0
                /\ saved[s].p1 = p1
                /\ saved[s].abs_increase
                       = [fn |-> "percent_points", from |-> p0, to |-> p1]

----------------------------------------------------------------------------
(* DBLostClients.py when an INSERT raises.                                 *)
(*                                                                         *)
(* sqlite3 opens a transaction before the first INSERT on a connection and *)
(* the program commits once, after the loop (lines 185 and 304); do(),     *)
(* which commits after its statement, runs the CREATE TABLE statements     *)
(* only.  No exception is caught: when cursor.execute or a conversion of   *)
(* the row raises, main() ends with it, and the connection goes away with  *)
(* its transaction open, which SQLite rolls back.                          *)

\* main(), line 310, started on a database file that does not exist yet:
\* the failing load is followed from the first run of the script.
main_fresh ==
    /\ UNCHANGED notDB
    /\ pc = "idle"
    /\ runs = 0
    /\ runs' = 1
    /\ pc' = "create_open"
    /\ UNCHANGED <<df1, df2, schema, db, pending, conn, cursor, lconn, nOpen,
                   target, work, i, merged, printed>>

\* insert_df_to_table, lines 175-183: the pass for row i raises.
insert_df_fails ==
    /\ UNCHANGED notDB
    /\ pc = "ins_rows"
    /\ i <= Len(work)
    /\ pending' = <<>>
    /\ conn' = [conn EXCEPT !.state = "closed"]
    /\ nOpen' = nOpen - 1
    /\ pc' = "failed"
    /\ UNCHANGED <<df1, df2, schema, db, cursor, lconn, target, work, i,
                   merged, printed, runs>>

\* insert_into_gone_clients_content, lines 261-302: the pass for row i raises.
facts_fails ==
    /\ UNCHANGED notDB
    /\ pc = "facts_rows"
    /\ i <= Len(merged)
    /\ pending' = <<>>
    /\ lconn' = [lconn EXCEPT !.state = "closed"]
    /\ nOpen' = nOpen - 1
    /\ pc' = "failed"
    /\ UNCHANGED <<df1, df2, schema, db, conn, cursor, target, work, i,
                   merged, printed, runs>>

NextDBFail ==
    \/ main_fresh
    \/ create_open
    \/ create_do
    \/ create_close
    \/ insert_df_open
    \/ insert_df_row
    \/ insert_df_fails
    \/ insert_df_commit
    \/ unite
    \/ facts_connect
    \/ facts_row
    \/ facts_fails
    \/ facts_commit
    \/ facts_close

SpecDBFail == InitSpecDB /\ [][NextDBFail]_vars

\* C20, as claimed: after a call failed at row i, the rows the call inserted
\* before row i are in the database.
C20_RowsBeforeFailurePersist ==
    pc = "failed" =>
        IF target = "gone_clients_content"
        THEN \A k \in 1..(i - 1) :
                 skip_reason(lookup_ids(merged[k], db)) = "none" =>
                     \E n \in 1..Len(Facts) :
                         Facts[n] = fact_row(lookup_ids(merged[k], db))
        ELSE \A k \in 1..(i - 1) :
                 \E n \in 1..Len(db[target]) :
                     db[target][n] = to_sql_values(work[k], target)

\* C20, amended: the rows a call of insert_df_to_table or of
\* insert_into_gone_clients_content inserts are committed together by the one
\* commit after its loop: no pass of the loop changes what the database
\* holds, and when inserting a row fails the rows the call inserted before
\* it are rolled back, so the database holds what it held when the call
\* began.
C20_FailureRollsBackCall ==
    [][(pc \in {"ins_rows", "facts_rows"}
            /\ pc' \in {"ins_rows", "facts_rows", "failed"}) =>
          /\ db' = db
          /\ pc' = "failed" => pending' = <<>>]_vars

\* C20's case: the fact load of the first run failed after it had inserted a
\* row, and gone_clients_content is empty.
C20_Witness ==
    /\ pc = "failed"
    /\ runs = 1
    /\ target = "gone_clients_content"
    /\ i > 1
    /\ skip_reason(lookup_ids(merged[1], db)) = "none"
    /\ Facts = <<>>

----------------------------------------------------------------------------
(* Connections of DBLostClients.py.                                        *)

\* C21: during main() at most one connection to the database file is open
\* at any moment, a connection is opened only when every connection opened
\* before it has been closed, and when main() returns no connection is open.
C21_OneConnectionAtATime ==
    [][/\ nOpen' <= 1
       /\ nOpen' > nOpen =>
              /\ nOpen = 0
              /\ conn.state # "open"
              /\ lconn.state # "open"
       /\ pc' = "done" =>
              /\ nOpen' = 0
              /\ conn'.state = "closed"
              /\ lconn'.state = "closed"]_vars

\* C21's case: main() has returned after it opened and closed the connection
\* of create(), the three of insert_df_to_table and its own, and loaded a
\* fact.
C21_Witness ==
    /\ pc = "done"
    /\ nOpen = 0
    /\ conn.state = "closed"
    /\ lconn.state = "closed"
    /\ Len(Facts) > 0

----------------------------------------------------------------------------
(* ETL/data_preparation.py: the cost and salary columns.                   *)
(*                                                                         *)
(* A moment is the integer yyyymmddhh: start_date is a datetime after      *)
(* preprocess_dates, and the bounds of a period are the midnights that     *)
(* pd.Timestamp makes of its two date strings.  NaT is a missing date.     *)

MaxReportRows == 2    \* rows of Final_Gone_Clients_Report.csv
MaxCostRows   == 2    \* rows of costs_salaries_converted.csv

PERIODS ==
    <<[start |-> 20220101, end |-> 20230731,
       cost_col |-> "2022_cost", sal_col |-> "2022_salary"],
      [start |-> 20230801, end |-> 20240831,
       cost_col |-> "2023_cost", sal_col |-> "2023_salary"]>>

\* pd.Timestamp("yyyy-mm-dd"): the midnight that begins the day.
Timestamp(day) == day * 100

CostCities  == {"Kyiv", "Uman"}
CostColumns == <<"2022_cost", "2022_salary", "2023_cost", "2023_salary">>

\* The start dates of the report: missing, the day before the first period,
\* the bounds of both periods, noon of the last day of each period and the
\* day after the second.
ReportMoments ==
    {NaT, 2021123100, 2022010100, 2023073100, 2023073112, 2023080100,
     2024083100, 2024083112, 2024090100}

ReportRow == [city : CostCities \cup {NaN}, start_date : ReportMoments]

\* Row k of a costs file with the given cities: every cell of the four
\* number columns holds a number of its own.
costs_row(k, city) ==
    [col \in {"city"} \cup {CostColumns[n] : n \in 1..Len(CostColumns)} |->
        IF col = "city" THEN city
        ELSE 100 * k + (CHOOSE n \in 1..Len(CostColumns) : CostColumns[n] = col)]

costs_file(cities) == [k \in 1..Len(cities) |-> costs_row(k, cities[k])]

CostsFiles ==
    {costs_file(cities) : cities \in SeqsUpTo(CostCities \cup {NaN}, MaxCostRows)}

\* line 143: pd.Timestamp(start) <= date <= pd.Timestamp(end).
\* (in_period_open_end: the same test with date < pd.Timestamp(end).)
in_period_open_end(date, period) ==
    Timestamp(period.start) <= date /\ date < Timestamp(period.end)
in_period(date, period) ==
    Timestamp(period.start) <= date /\ date <= Timestamp(period.end)

\* lines 142-146: the loop over PERIODS.items() from entry n on; the first
\* period that holds the date returns.
RECURSIVE period_values(_, _, _)
period_values(values, date, n) ==
    IF n > Len(PERIODS) THEN <<None, None>>
    ELSE IF in_period(date, PERIODS[n])
         THEN <<values[PERIODS[n].cost_col], values[PERIODS[n].sal_col]>>
         ELSE period_values(values, date, n + 1)

\* get_costs_and_salaries(row, costs_df), lines 135-146.  A missing city
\* equals no city (NaN == NaN is False).
get_costs_and_salaries(row, costs) ==
    LET values == SelectSeq(costs,
                      LAMBDA r : r.city # NaN /\ row.city # NaN
                                 /\ r.city = row.city)
    IN  IF values = <<>> \/ row.start_date = NaT
        THEN <<None, None>>
        ELSE period_values(values[1], row.start_date, 1)

\* The main script after steps 1-3: both files are loaded and start_date is
\* converted.  df.apply calls the function once for every row; a report
\* without rows is left out.
InitPrep ==
    /\ report \in SeqsUpTo(ReportRow, MaxReportRows)
    /\ report # <<>>
    /\ costs_df \in CostsFiles
    /\ ppc = "fill"

\* Main script, lines 224-226: df.apply(get_costs_and_salaries, axis=1,
\* costs_df=costs_df) assigned to the two new columns.
fill_costs_and_salaries ==
    /\ UNCHANGED notPrep
    /\ ppc = "fill"
    /\ report' =
           [k \in 1..Len(report) |->
               LET got == get_costs_and_salaries(report[k], costs_df)
               IN  [city |-> report[k].city,
                    start_date |-> report[k].start_date,
                    course_cost_in_month |-> got[1],
                    teacher_salaries |-> got[2]]]
    /\ ppc' = "done"
    /\ UNCHANGED costs_df

NextPrep == fill_costs_and_salaries

InitSpecPrep ==
    /\ InitPrep /\ InitDBIdle /\ InitLoadIdle /\ InitStatsIdle
    /\ InitAnalysisIdle /\ InitLossIdle /\ InitAgeIdle /\ InitApiIdle
    /\ InitCausalIdle /\ InitNameIdle

SpecPrep == InitSpecPrep /\ [][NextPrep]_vars

\* The rows of costs_df whose city is the city of the row.
CostRowsOf(city) ==
    {j \in 1..Len(costs_df) : city # NaN /\ costs_df[j].city = city}

\* The periods of PERIODS that hold the date, bounds included.
PeriodsOf(date) ==
    {n \in 1..Len(PERIODS) :
        /\ date # NaT
        /\ PERIODS[n].start * 100 <= date
        /\ date <= PERIODS[n].end * 100}

\* C22: get_costs_and_salaries returns [None, None] when the city of the row
\* is in no row of costs_df, when start_date is missing or when start_date is
\* in no period of PERIODS; otherwise it returns the cost and salary cells,
\* for the one period that holds the date, of the first costs_df row of the
\* city.  No date is in two periods.
C22_CostsOfCityAndPeriod ==
    ppc = "done" =>
        \A k \in 1..Len(report) :
            LET r    == report[k]
                got  == <<r.course_cost_in_month, r.teacher_salaries>>
                rows == CostRowsOf(r.city)
                ps   == PeriodsOf(r.start_date)
            IN  /\ Cardinality(ps) <= 1
                /\ IF rows = {} \/ r.start_date = NaT \/ ps = {}
                   THEN got = <<None, None>>
                   ELSE LET first == CHOOSE j \in rows :
                                         \A j2 \in rows : j <= j2
                            p == PERIODS[CHOOSE n \in ps : TRUE]
                        IN  got = <<costs_df[first][p.cost_col],
                                    costs_df[first][p.sal_col]>>

\* C22's case: costs_df has two rows for a city; one row of the report, on
\* the last day of the second period, got the cells of the first of them and
\* another, at noon of that day, got [None, None].
C22_Witness ==
    /\ ppc = "done"
    /\ Len(costs_df) = 2
    /\ costs_df[1].city = costs_df[2].city
    /\ \E k \in 1..Len(report) :
           /\ report[k].start_date = 2024083100
           /\ report[k].course_cost_in_month = costs_df[1]["2023_cost"]
           /\ report[k].teacher_salaries = costs_df[1]["2023_salary"]
    /\ \E k \in 1..Len(report) :
           /\ report[k].start_date = 2024083112
           /\ report[k].city = costs_df[1].city
           /\ report[k].course_cost_in_month = None

----------------------------------------------------------------------------
(* The three lists of get_quartile_category_teachers_list together.        *)

\* In how many of the three lists, and how often, a teacher is named.
TimesListed(lists, t) ==
    Count(lists.best, t) + Count(lists.interquartile, t) + Count(lists.bad, t)

\* Every row of df is in one list, once, and the lists hold nothing else.
PartitionsRows(df, lists) ==
    /\ \A k \in 1..Len(df) : TimesListed(lists, df[k].name_normalized) = 1
    /\ Len(lists.best) + Len(lists.interquartile) + Len(lists.bad) = Len(df)

\* C23: with the default quantiles the lists 'best', 'interquartile' and
\* 'bad' that get_quartile_category_teachers_list returns partition the rows
\* of its table: every row is in exactly one of the three, a row whose value
\* is the first or the third quartile included.
C23_ListsPartitionRows ==
    /\ spc \in {"quartiles_22_23", "quartiles_23_24", "analysis", "groups"} =>
           PartitionsRows(Clean1, quart1)
    /\ spc \in {"quartiles_23_24", "analysis", "groups"} =>
           PartitionsRows(Clean2, quart2)

\* C23's case: the table of 2023/2024 has a row below its first quartile,
\* a row whose value is the first quartile and a row whose value is the
\* third, and the table of 2022/2023 has a row above its third quartile.
C23_Witness ==
    /\ spc = "quartiles_23_24"
    /\ quart2.best # <<>>
    /\ quart1.bad # <<>>
    /\ \E k \in 1..Len(Clean2) :
           4 * Clean2[k].percent = quantile_x4(values_of(Clean2), DefaultQ1)
    /\ \E k \in 1..Len(Clean2) :
           4 * Clean2[k].percent = quantile_x4(values_of(Clean2), DefaultQ3)

----------------------------------------------------------------------------
(* Outliers and the quartile lists in teachers_analysis.csv.               *)

\* The teacher is in one of the six quartile lists of the two years.
InQuartileLists(t) ==
    \E c \in {"best", "interquartile", "bad"} :
        InList(quart1[c], t) \/ InList(quart2[c], t)

\* C24: a teacher that plot_box_compare returned as an outlier of either
\* year is in no quartile list of either year, so a row of
\* teachers_analysis.csv with worst > 0 has best = interquart = bad = 0; and
\* with one row per teacher in each yearly table, best + interquart + bad +
\* worst is at most 2 in every row.
C24_OutliersLeaveBothYears ==
    /\ spc \in {"quartiles_23_24", "analysis", "groups"} =>
           \A k \in 1..Len(outliers) : ~InQuartileLists(outliers[k])
    /\ spc \in {"analysis", "groups"} =>
           \A k \in 1..Len(df_analysis) :
               LET r == df_analysis[k]
               IN  /\ r.worst > 0 =>
                          r.best = 0 /\ r.interquart = 0 /\ r.bad = 0
                   /\ r.best + r.interquart + r.bad + r.worst <= 2

\* C24's case: a teacher is an outlier of 2022/2023 only and has a row in
\* the table of 2023/2024: the row of teachers_analysis.csv has worst = 1.
\* Another teacher is in a quartile list.
C24_Witness ==
    /\ spc = "analysis"
    /\ \E k \in 1..Len(df_analysis) :
           LET t == df_analysis[k].name
           IN  /\ df_analysis[k].worst = 1
               /\ t \in OutliersOf(stats1)
               /\ t \notin OutliersOf(stats2)
               /\ \E j \in 1..Len(stats2) : stats2[j].name_normalized = t
    /\ \E k \in 1..Len(df_analysis) :
           /\ df_analysis[k].worst = 0
           /\ df_analysis[k].best + df_analysis[k].interquart
                  + df_analysis[k].bad > 0

----------------------------------------------------------------------------
(* The stability groups A and B, over groups CSVs that may list a teacher  *)
(* twice.                                                                  *)
(*                                                                         *)
(* get_loss_dataframe merges the grouped losses with the groups CSV it     *)
(* reads (analytics.py, lines 66-67); the left merge returns a row for     *)
(* every row the CSV has for the teacher, so a teacher the CSV lists twice *)
(* has two rows in the yearly table, next to each other.                   *)

MaxListedRows == 5    \* rows of stats_22_23 and stats_23_24 together

\* The names of a yearly table of n rows: the first n teachers, or the first
\* teacher twice and then the next ones.
listed_names(n, twice) ==
    IF twice /\ n >= 2
    THEN <<TeacherOrder[1]>> \o [k \in 1..(n - 1) |-> TeacherOrder[k]]
    ELSE [k \in 1..n |-> TeacherOrder[k]]

ListedTables(n) ==
    {[k \in 1..n |-> [name_normalized |-> listed_names(n, twice)[k],
                      percent |-> v[k]]] :
        v \in [1..n -> LossValues], twice \in BOOLEAN}

InitListed ==
    /\ \E n \in 1..(MaxListedRows - 1) :
          /\ stats1 \in ListedTables(n)
          /\ \E m \in 1..(MaxListedRows - n) : stats2 \in ListedTables(m)
    /\ outliers = <<>>
    /\ quart1 = NoLists
    /\ quart2 = NoLists
    /\ spc = "idle"
    /\ df_analysis = <<>>
    /\ teacher_groups = <<>>

InitSpecListed ==
    /\ InitListed /\ InitDBIdle /\ InitLoadIdle
    /\ InitLossIdle /\ InitAgeIdle /\ InitApiIdle /\ InitCausalIdle
    /\ InitPrepIdle /\ InitNameIdle

SpecListed == InitSpecListed /\ [][NextAnalysis]_vars

\* No teacher is written to both teachers_A.csv and teachers_B.csv.
GroupsABDisjoint ==
    \A k \in 1..Len(TeacherOrder) :
        ~(/\ InList(teacher_groups["A"], TeacherOrder[k])
          /\ InList(teacher_groups["B"], TeacherOrder[k]))

\* The yearly table has one row per teacher.
OneRowPerTeacher(df) ==
    \A a, b \in 1..Len(df) :
        df[a].name_normalized = df[b].name_normalized => a = b

\* C25, as claimed: for every teachers_analysis table main.py produces, the
\* groups A and B that feature_engineering.main computes are disjoint.
C25_GroupsABDisjoint ==
    spc = "groups" => GroupsABDisjoint

\* C25, amended: when each yearly table has one row per teacher (each groups
\* CSV lists a teacher at most once), no teacher is written to both
\* teachers_A.csv and teachers_B.csv.
C25_GroupsABDisjointWhenListedOnce ==
    (spc = "groups" /\ OneRowPerTeacher(stats1) /\ OneRowPerTeacher(stats2))
        => GroupsABDisjoint

\* C25's case: both tables have one row per teacher, a teacher was in one
\* category in both years (group A) and another in two categories (group B).
C25_Witness ==
    /\ spc = "groups"
    /\ OneRowPerTeacher(stats1)
    /\ OneRowPerTeacher(stats2)
    /\ teacher_groups["A"] # <<>>
    /\ teacher_groups["B"] # <<>>

----------------------------------------------------------------------------
(* etl_pipeline/main.py, step 2: the names of the teachers.                *)
(*                                                                         *)
(* A name is the sequence of its words and of the characters between them: *)
(* a word stands for a run of the characters the class of the pattern     *)
(* matches (\w, the Cyrillic letters and the apostrophe), " " and "\t" are *)
(* whitespace (\s, and what str.strip() removes), "-" is any other         *)
(* character.  The names of name_map are written in Latin letters.         *)

MaxNameLen == 5    \* words and characters of a teacher_name cell

Whitespace == {" ", "\t"}
WordChars  == {"Oleh", "Popruha"}     \* the words of the names tried in full
NameChars  == WordChars \cup Whitespace \cup {"-"}

\* name_map of main.py, lines 97-107.
name_map ==
    <<[alias |-> <<"Knidze", " ", "Misha">>,
       canonical |-> <<"Svitlozar", " ", "Chaus">>],
      [alias |-> <<"Knydze", " ", "Mykhail">>,
       canonical |-> <<"Svitlozar", " ", "Chaus">>],
      [alias |-> <<"Sazonova", " ", "Liza">>,
       canonical |-> <<"Sazonova", " ", "Yelyzaveta">>],
      [alias |-> <<"Kotelnikov", " ", "Serhii">>,
       canonical |-> <<"Kotelnykov", " ", "Serhii">>],
      [alias |-> <<"Kotelnikov", " ", "50">>,
       canonical |-> <<"Kotelnykov", " ", "Serhii">>],
      [alias |-> <<"Honcharuk", " ", "Onlain">>,
       canonical |-> <<"Honcharuk", " ", "Denys">>],
      [alias |-> <<"Udodik", " ", "Ira">>,
       canonical |-> <<"Udodik", " ", "Iryna">>],
      [alias |-> <<"Oleh", " ", "Popruha">>,
       canonical |-> <<"Popruha", " ", "Oleh">>],
      [alias |-> <<"Klymenko", " ", "250">>,
       canonical |-> <<"Klymenko", " ", "Vladyslav">>]>>

\* The names of the dictionary, as they are or with text around them.
DictionaryNames ==
    {before \o n \o after :
        n \in {name_map[e].alias : e \in 1..Len(name_map)}
                  \cup {name_map[e].canonical : e \in 1..Len(name_map)},
        before \in {<<>>, <<" ">>},
        after \in {<<>>, <<"\t">>, <<" ", "Oleh">>, <<"-">>}}

\* The teacher_name cells of General_Gone_Clients_Report.csv.
TeacherNameCells == SeqsUpTo(NameChars, MaxNameLen) \cup DictionaryNames

\* str.strip(): leading and trailing whitespace removed.
strip_whitespace(s) ==
    LET ink == {k \in 1..Len(s) : s[k] \notin Whitespace}
    IN  IF ink = {} THEN <<>>
        ELSE SubSeq(s, CHOOSE a \in ink : \A k \in ink : a <= k,
                       CHOOSE b \in ink : \A k \in ink : k <= b)

\* How many characters from position k on the class of the pattern matches
\* (a "+" of the pattern takes them all: what follows in the pattern is
\* whitespace or the end of the group).
RECURSIVE word_run(_, _)
word_run(s, k) ==
    IF k > Len(s) THEN 0
    ELSE IF s[k] \in Whitespace \cup {"-"} THEN 0
    ELSE 1 + word_run(s, k + 1)

\* normalize_teacher, lines 74-76: strip, then re.match of two words with one
\* whitespace character between them at the start of the name; the match if
\* there is one, the stripped name otherwise.
\* (normalize_teacher_trailing: the same with a pattern that also takes one
\* whitespace character after the second word.)
normalize_teacher_trailing(name) ==
    LET n == strip_whitespace(name)
        a == word_run(n, 1)
        b == word_run(n, a + 2)
        e == a + 1 + b
    IN  IF a >= 1 /\ a + 1 <= Len(n) /\ n[a + 1] \in Whitespace /\ b >= 1
        THEN IF e + 1 <= Len(n) /\ n[e + 1] \in Whitespace
             THEN SubSeq(n, 1, e + 1)
             ELSE SubSeq(n, 1, e)
        ELSE n
normalize_teacher(name) ==
    LET n == strip_whitespace(name)
        a == word_run(n, 1)
        b == word_run(n, a + 2)
    IN  IF a >= 1 /\ a + 1 <= Len(n) /\ n[a + 1] \in Whitespace /\ b >= 1
        THEN SubSeq(n, 1, a + 1 + b)
        ELSE n

\* name_map.get(key, default)
name_map_get(dict, key, default) ==
    IF \E e \in 1..Len(dict) : dict[e].alias = key
    THEN dict[CHOOSE e \in 1..Len(dict) : dict[e].alias = key].canonical
    ELSE default

\* map_teacher_names, line 93: the lambda applied to a cell.
map_teacher_name(x, dict) ==
    name_map_get(dict, strip_whitespace(x), strip_whitespace(x))

\* map_teacher_names(df, name_map): the column name_normalized is added.
map_teacher_names(row, dict) ==
    [teacher_name |-> row.teacher_name,
     teacher_normalized |-> row.teacher_normalized,
     name_normalized |-> map_teacher_name(row.teacher_normalized, dict)]

InitName ==
    /\ names_df \in [teacher_name : TeacherNameCells]
    /\ npc = "strip"

\* main.py, line 90: df["teacher_name"].str.strip().
strip_teacher_name ==
    /\ UNCHANGED notName
    /\ npc = "strip"
    /\ names_df' = [teacher_name |-> strip_whitespace(names_df.teacher_name)]
    /\ npc' = "normalize"

\* main.py, line 94.
apply_normalize_teacher ==
    /\ UNCHANGED notName
    /\ npc = "normalize"
    /\ names_df' = [teacher_name |-> names_df.teacher_name,
                    teacher_normalized |->
                        normalize_teacher(names_df.teacher_name)]
    /\ npc' = "map"

\* main.py, line 108.
call_map_teacher_names ==
    /\ UNCHANGED notName
    /\ npc = "map"
    /\ names_df' = map_teacher_names(names_df, name_map)
    /\ npc' = "done"

NextName ==
    \/ strip_teacher_name
    \/ apply_normalize_teacher
    \/ call_map_teacher_names

InitSpecName ==
    /\ InitName /\ InitDBIdle /\ InitLoadIdle /\ InitStatsIdle
    /\ InitAnalysisIdle /\ InitLossIdle /\ InitAgeIdle /\ InitApiIdle
    /\ InitCausalIdle /\ InitPrepIdle

SpecName == InitSpecName /\ [][NextName]_vars

\* The name is an alias of the dictionary.
IsAlias(x) == \E e \in 1..Len(name_map) : name_map[e].alias = x

\* What the dictionary makes of a trimmed name.
Mapped(x) ==
    IF IsAlias(x)
    THEN name_map[CHOOSE e \in 1..Len(name_map) : name_map[e].alias = x].canonical
    ELSE x

\* C26: normalize_teacher applied twice gives what it gives applied once;
\* map_teacher_names gives the canonical name of a name that, trimmed, is an
\* alias of the dictionary and every other name trimmed and otherwise
\* unchanged; no canonical name of main.py's dictionary is an alias, and the
\* mapping applied twice gives what it gives applied once.  Checked on every
\* cell of the row, before and after each statement of step 2.
C26_NormalizationIdempotent ==
    /\ \A e1, e2 \in 1..Len(name_map) :
           name_map[e1].canonical # name_map[e2].alias
    /\ \A c \in DOMAIN names_df :
           LET x == names_df[c]
           IN  /\ normalize_teacher(normalize_teacher(x)) = normalize_teacher(x)
               /\ map_teacher_name(x, name_map) = Mapped(strip_whitespace(x))
               /\ map_teacher_name(map_teacher_name(x, name_map), name_map)
                      = map_teacher_name(x, name_map)
    /\ npc = "done" =>
           /\ names_df.name_normalized
                  = Mapped(strip_whitespace(names_df.teacher_normalized))
           /\ normalize_teacher(names_df.teacher_normalized)
                  = names_df.teacher_normalized

\* C26's case: a name with text after its second word was cut to its first
\* two words, which are an alias, and mapped to the canonical name.
C26_Witness ==
    /\ npc = "done"
    /\ Len(names_df.teacher_name) > Len(names_df.teacher_normalized)
    /\ IsAlias(names_df.teacher_normalized)
    /\ names_df.name_normalized # names_df.teacher_normalized

====
